---------------------------- MODULE Spec2Model ----------------------------
(***************************************************************************)
(* A model of interaxtion's pattern detection and rule validation engine:  *)
(* the DOM helpers (common/dom, common/aria), the dialog detector and      *)
(* validator, the Analyzer, and the BrowserRunner / NodeRunner scan        *)
(* sessions with their single-flight guard.                                *)
(*                                                                         *)
(* Strings are sequences of one-character strings, so that toLowerCase,    *)
(* trim, split and includes are computed as the code computes them.        *)
(* A document is a sequence of elements in document (pre-)order, each with *)
(* the index of its parent element (0 = <body>).                           *)
(***************************************************************************)
EXTENDS Integers, Sequences, FiniteSets, TLC

VARIABLES
    doc,        \* the host document: sequence of elements in document order
    cfg,        \* runner id -> RunnerConfig.analyzerConfig of that runner
    isScanRunning, \* runner id -> BrowserRunner.isScanRunning
    calls,      \* sequence of call records: every run()/runOnElement() issued
    notes,      \* runner id -> sequence of onScanStateChange arguments seen
    onChange,   \* runner id -> what config.onScanStateChange does when called
    clock,      \* Date.now(), in milliseconds
    acfg,       \* the config of the stand-alone Analyzer under test
    last,       \* the result of the latest analyze() of that Analyzer
    prev,       \* the result of the analyze() before it
    ncalls,     \* number of analyze() calls made on the stand-alone Analyzer
    filt,       \* the latest application of Analyzer.filterByConfidence
    within,     \* the latest scoped analysis (the try block of runOnElement)
    page,       \* the page an e2e driver holds: its driver and document context
    e2e,        \* sequence of call records: every e2e analyze(page) issued
    injectedPages \* whether the page is in the injectedPages WeakSet

vars == <<doc, cfg, isScanRunning, calls, notes, onChange, clock, acfg, last, prev, ncalls,
          filt, within, page, e2e, injectedPages>>

---------------------------------------------------------------------------
(* Bounds of the model.                                                    *)

\* largest number of elements of a document
MaxNodes == 2
\* largest number of calls issued to the runners in one behaviour
MaxCalls == 2
\* the clock stops advancing after this many milliseconds
MaxClock == 1000
\* largest number of analyze() calls on the stand-alone Analyzer
MaxAnalyze == 2
\* largest number of e2e analyze(page) calls in one behaviour
MaxE2ECalls == 2
\* largest number of navigations of the page in one behaviour
MaxNavigations == 1
\* largest number of elements of a document of siblings
MaxSiblings == 4

---------------------------------------------------------------------------
(* Strings.                                                                *)

\* the elements of a sequence, as a set
Range(s) == {s[i] : i \in DOMAIN s}

Upper == <<"A","B","C","D","E","F","G","H","I","J","K","L","M",
           "N","O","P","Q","R","S","T","U","V","W","X","Y","Z">>
LowerL == <<"a","b","c","d","e","f","g","h","i","j","k","l","m",
            "n","o","p","q","r","s","t","u","v","w","x","y","z">>

\* the lower-case letter of each upper-case letter
LowerOf == [c \in Range(Upper) |-> LowerL[CHOOSE i \in 1..26 : Upper[i] = c]]

\* String.prototype.toLowerCase, one character
LowerChar(c) == IF c \in DOMAIN LowerOf THEN LowerOf[c] ELSE c

\* String.prototype.toLowerCase
ToLowerCase(s) == [i \in 1..Len(s) |-> LowerChar(s[i])]

\* String.prototype.includes
Includes(s, w) ==
    \E k \in 0..(Len(s) - Len(w)) : \A i \in 1..Len(w) : s[k + i] = w[i]

IsSpace(c) == c = " "

\* String.prototype.trim
RECURSIVE TrimLeft(_)
TrimLeft(s) == IF s # <<>> /\ IsSpace(Head(s)) THEN TrimLeft(Tail(s)) ELSE s

RECURSIVE TrimRight(_)
TrimRight(s) ==
    IF s # <<>> /\ IsSpace(s[Len(s)]) THEN TrimRight(SubSeq(s, 1, Len(s) - 1)) ELSE s

Trim(s) == TrimRight(TrimLeft(s))

\* s.split(/\s+/) of a trimmed string: the whitespace-separated tokens
RECURSIVE SplitAcc(_, _, _)
SplitAcc(s, cur, acc) ==
    IF s = <<>> THEN (IF cur = <<>> THEN acc ELSE Append(acc, cur))
    ELSE IF IsSpace(Head(s))
         THEN SplitAcc(Tail(s), <<>>, IF cur = <<>> THEN acc ELSE Append(acc, cur))
         ELSE SplitAcc(Tail(s), Append(cur, Head(s)), acc)

SplitWs(s) == SplitAcc(s, <<>>, <<>>)

\* Array.prototype.join(' ')
RECURSIVE JoinSp(_)
JoinSp(ss) ==
    IF ss = <<>> THEN <<>>
    ELSE IF Len(ss) = 1 THEN ss[1]
    ELSE ss[1] \o <<" ">> \o JoinSp(Tail(ss))

\* new Set(array) turned back into an array: first occurrences, in order
RECURSIVE Dedup(_)
Dedup(s) ==
    IF s = <<>> THEN <<>>
    ELSE LET r == Dedup(SubSeq(s, 1, Len(s) - 1))
             x == s[Len(s)]
         IN IF x \in Range(r) THEN r ELSE Append(r, x)


---------------------------------------------------------------------------
(* Elements and documents.                                                 *)
(* An attribute whose absence the code cannot tell from the empty string   *)
(* (getAttribute(..) tested for truthiness, element.id, className) is the  *)
(* empty string when absent; alt and tabindex, whose presence matters, are *)
(* Null when absent; attributes only tested with hasAttribute are BOOLEAN. *)

Null == <<"null">>

\* the <body> element: the parent of the top-level elements
Body == 0

Nodes(d) == 1..Len(d)

\* a <div> without attributes and text; the elements of the model are
\* variations of it
Plain ==
    [ tag |-> "div", role |-> <<>>, id |-> <<>>, ariaLabel |-> <<>>,
      ariaLabelledby |-> <<>>, ariaModal |-> <<>>, ariaHidden |-> <<>>,
      hidden |-> FALSE, className |-> <<>>, display |-> <<>>,
      visibility |-> <<>>, text |-> <<>>, title |-> <<>>, alt |-> Null,
      placeholder |-> <<>>, htmlFor |-> <<>>, ariaControls |-> <<>>,
      dataTarget |-> <<>>, dataDismiss |-> FALSE, dataClose |-> FALSE,
      disabled |-> FALSE, tabindex |-> Null, href |-> FALSE,
      contenteditable |-> <<>>, controls |-> FALSE, parent |-> Body ]

\* Node.parentElement, as an index (Body for a top-level element)
ParentOf(d, n) == d[n].parent

\* a is a proper ancestor of b
RECURSIVE IsAncestor(_, _, _)
IsAncestor(d, a, b) ==
    IF b = Body THEN FALSE
    ELSE ParentOf(d, b) = a \/ IsAncestor(d, a, ParentOf(d, b))

\* Node.contains: an element contains itself and its descendants
Contains(d, a, b) == a = b \/ IsAncestor(d, a, b)

\* the elements of d in document order
Idx(d) == [i \in 1..Len(d) |-> i]

\* root.querySelectorAll(selector): the proper descendants of root that
\* match, in document order; root is Body for document.querySelectorAll
QuerySelectorAll(d, root, M(_)) ==
    SelectSeq(Idx(d), LAMBDA n : IsAncestor(d, root, n) /\ M(d[n]))

\* Node.textContent: the text of the element and of its descendants
RECURSIVE TextFrom(_, _, _)
TextFrom(d, root, n) ==
    IF n > Len(d) THEN <<>>
    ELSE (IF Contains(d, root, n) THEN d[n].text ELSE <<>>)
         \o TextFrom(d, root, n + 1)

TextContent(d, n) == TextFrom(d, n, 1)

\* document.getElementById: the first element with that id, or Body - 1
NoNode == 0 - 1

GetElementById(d, id) ==
    IF id # <<>> /\ \E n \in Nodes(d) : d[n].id = id
    THEN CHOOSE n \in Nodes(d) :
            d[n].id = id /\ \A m \in Nodes(d) : d[m].id = id => n <= m
    ELSE NoNode

\* Parent.children: the element children of p, in document order
Children(d, p) == SelectSeq(Idx(d), LAMBDA n : ParentOf(d, n) = p)



---------------------------------------------------------------------------
(* CSS attribute selectors built from strings: [attr="value"].             *)

Invalid == <<"invalid">>

\* the value a CSS parser reads between the double quotes of [attr="..."]
\* when the selector text holds s there: a backslash escapes the character
\* after it; a bare double quote ends the string early, and a backslash at
\* the end escapes the closing quote: both leave a malformed selector
RECURSIVE CssString(_)
CssString(s) ==
    IF s = <<>> THEN <<>>
    ELSE IF Head(s) = "\"" THEN Invalid
    ELSE IF Head(s) = "\\"
         THEN IF Len(s) = 1 THEN Invalid
              ELSE LET r == CssString(SubSeq(s, 3, Len(s)))
                   IN IF r = Invalid THEN Invalid ELSE <<s[2]>> \o r
    ELSE LET r == CssString(Tail(s))
         IN IF r = Invalid THEN Invalid ELSE <<Head(s)>> \o r

\* value.replace(/"/g, '\\"')
RECURSIVE EscapeQuotes(_)
EscapeQuotes(s) ==
    IF s = <<>> THEN <<>>
    ELSE (IF Head(s) = "\"" THEN <<"\\", "\"">> ELSE <<Head(s)>>)
         \o EscapeQuotes(Tail(s))

\* findByAttribute(document, 'aria-controls', value) throws a SyntaxError
FindByAttributeThrows(value) == CssString(EscapeQuotes(value)) = Invalid

\* findByAttribute(document, 'aria-controls', value)
FindByAriaControls(d, value) ==
    QuerySelectorAll(d, Body,
        LAMBDA e : e.ariaControls = CssString(EscapeQuotes(value)))

---------------------------------------------------------------------------
(* common/dom                                                              *)

s_none == <<"n","o","n","e">>
s_hidden == <<"h","i","d","d","e","n">>
s_true == <<"t","r","u","e">>

hiddenClasses ==
    { s_hidden, <<"h","i","d","e">>, <<"d","-","n","o","n","e">>,
      <<"i","n","v","i","s","i","b","l","e">>, <<"s","r","-","o","n","l","y">>,
      <<"v","i","s","u","a","l","l","y","-","h","i","d","d","e","n">> }

\* Element.classList: the whitespace-separated tokens of the class attribute
ClassList(e) == Range(SplitWs(e.className))

isVisible(e) ==
    IF e.hidden THEN FALSE
    ELSE IF e.ariaHidden = s_true THEN FALSE
    ELSE IF e.display = s_none \/ e.visibility = s_hidden THEN FALSE
    ELSE IF hiddenClasses \cap ClassList(e) # {} THEN FALSE
    ELSE TRUE

\* a test that looks at the hidden attribute only
isExplicitlyHiddenByAttribute(e) == e.hidden

isExplicitlyHidden(e) == ~isVisible(e)

\* the selector of getFocusableElements, matched against one element
FocusableSelector(e) ==
    \/ e.tag = "a" /\ e.href
    \/ e.tag \in {"button", "input", "select", "textarea"} /\ ~e.disabled
    \/ e.tabindex # Null /\ e.tabindex # <<"-", "1">>
    \/ e.contenteditable = s_true
    \/ e.tag \in {"audio", "video"} /\ e.controls
    \/ e.tag = "details"

getFocusableElements(d, container) ==
    QuerySelectorAll(d, container, FocusableSelector)

---------------------------------------------------------------------------
(* common/aria                                                             *)

\* findLabelElement throws: label[for="<id>"] is built from the raw id
findLabelElementThrows(d, n) ==
    /\ d[n].ariaLabelledby = <<>>
    /\ d[n].id # <<>>
    /\ CssString(d[n].id) = Invalid

\* element.closest('label'): the element itself or its nearest ancestor
RECURSIVE ClosestLabel(_, _)
ClosestLabel(d, n) ==
    IF n = Body THEN NoNode
    ELSE IF d[n].tag = "label" THEN n
    ELSE ClosestLabel(d, ParentOf(d, n))

findLabelElement(d, n) ==
    IF d[n].ariaLabelledby # <<>>
    THEN GetElementById(d, d[n].ariaLabelledby)
    ELSE LET forLabels ==
                 IF d[n].id = <<>> THEN <<>>
                 ELSE QuerySelectorAll(d, Body,
                          LAMBDA e : e.tag = "label" /\ e.htmlFor = CssString(d[n].id))
         IN IF forLabels # <<>> THEN forLabels[1] ELSE ClosestLabel(d, n)

\* the text of the elements aria-labelledby names, without the empty ones
LabelledByTexts(d, n) ==
    LET ids == SplitWs(Trim(d[n].ariaLabelledby))
        txt(id) == IF GetElementById(d, id) = NoNode THEN <<>>
                   ELSE Trim(TextContent(d, GetElementById(d, id)))
    IN SelectSeq([i \in 1..Len(ids) |-> txt(ids[i])], LAMBDA t : t # <<>>)

getAccessibleNameThrows(d, n) ==
    /\ ~(d[n].ariaLabelledby # <<>> /\ LabelledByTexts(d, n) # <<>>)
    /\ Trim(d[n].ariaLabel) = <<>>
    /\ d[n].tag \in {"input", "textarea", "select"}
    /\ findLabelElementThrows(d, n)

getAccessibleName(d, n) ==
    LET e == d[n]
        label == findLabelElement(d, n)
    IN
    \* Step 1: aria-labelledby
    IF e.ariaLabelledby # <<>> /\ LabelledByTexts(d, n) # <<>>
    THEN JoinSp(LabelledByTexts(d, n))
    \* Step 2: aria-label
    ELSE IF Trim(e.ariaLabel) # <<>> THEN Trim(e.ariaLabel)
    \* Step 3: native labelling
    ELSE IF /\ e.tag \in {"input", "textarea", "select"}
            /\ label # NoNode
            /\ Trim(TextContent(d, label)) # <<>>
    THEN Trim(TextContent(d, label))
    \* Step 4: alt
    ELSE IF e.tag = "img" /\ e.alt # Null THEN Trim(e.alt)
    \* Step 5: title
    ELSE IF Trim(e.title) # <<>> THEN Trim(e.title)
    \* Step 6: text content
    ELSE IF e.tag \in {"button", "a"} /\ Trim(TextContent(d, n)) # <<>>
    THEN Trim(TextContent(d, n))
    \* Step 7: placeholder
    ELSE IF e.tag \in {"input", "textarea"} /\ Trim(e.placeholder) # <<>>
    THEN Trim(e.placeholder)
    ELSE <<>>

hasAccessibleName(d, n) == Len(getAccessibleName(d, n)) > 0

\* getRole, for the tags of the model: the first token of an explicit role,
\* else the implicit role of the tag ("" for none)
getRole(d, n) ==
    LET e == d[n] IN
    IF e.role # <<>> THEN
        (IF SplitWs(Trim(e.role)) = <<>> THEN <<>> ELSE SplitWs(Trim(e.role))[1])
    ELSE IF e.tag = "a" THEN (IF e.href THEN <<"l","i","n","k">> ELSE <<>>)
    ELSE IF e.tag = "button" THEN <<"b","u","t","t","o","n">>
    ELSE IF e.tag = "dialog" THEN <<"d","i","a","l","o","g">>
    ELSE IF e.tag = "textarea" THEN <<"t","e","x","t","b","o","x">>
    ELSE <<>>


---------------------------------------------------------------------------
(* patterns/dialog/detector                                                *)

s_dialog == <<"d","i","a","l","o","g">>
s_alertdialog == <<"a","l","e","r","t","d","i","a","l","o","g">>
s_button == <<"b","u","t","t","o","n">>
s_close == <<"c","l","o","s","e">>
s_dismiss == <<"d","i","s","m","i","s","s">>
s_cancel == <<"c","a","n","c","e","l">>
s_backdrop == <<"b","a","c","k","d","r","o","p">>
s_overlay == <<"o","v","e","r","l","a","y">>
s_mask == <<"m","a","s","k">>

\* element.className.toLowerCase() throws a TypeError: the className of an
\* SVG element is an SVGAnimatedString, not a string
ClassNameThrows(e) == e.tag = "svg"

\* the selector '[data-target="#<id>"], [data-target="<id>"]' is malformed
DataTargetSelectorThrows(id) == CssString(id) = Invalid

\* the two lookups of findTriggers put one after the other, the Set left out
findTriggersNoSet(d, dialog) ==
    IF d[dialog].id = <<>> THEN <<>>
    ELSE SelectSeq(Idx(d), LAMBDA n : d[n].ariaControls = d[dialog].id)
         \o SelectSeq(Idx(d), LAMBDA n :
                 d[n].dataTarget \in {d[dialog].id, <<"#">> \o d[dialog].id})

findTriggersThrows(d, dialog) ==
    /\ d[dialog].id # <<>>
    /\ FindByAttributeThrows(d[dialog].id) \/ DataTargetSelectorThrows(d[dialog].id)

findTriggers(d, dialog) ==
    IF d[dialog].id = <<>> THEN <<>>
    ELSE LET id == d[dialog].id
             byControls == FindByAriaControls(d, id)
             byTarget == QuerySelectorAll(d, Body,
                 LAMBDA e : \/ e.dataTarget = <<"#">> \o CssString(id)
                            \/ e.dataTarget = CssString(id))
         IN Dedup(byControls \o byTarget)

\* dialog.querySelectorAll('button, [role="button"]')
CloseCandidates(d, dialog) ==
    QuerySelectorAll(d, dialog, LAMBDA e : e.tag = "button" \/ e.role = s_button)

findCloseButtonsThrows(d, dialog) ==
    \E b \in Range(CloseCandidates(d, dialog)) : ClassNameThrows(d[b])

\* a test with close, dismiss and cancel looked for in all three of text,
\* label and class name
IsCloseButtonSymmetric(d, button) ==
    LET text == ToLowerCase(TextContent(d, button))
        label == ToLowerCase(d[button].ariaLabel)
        className == ToLowerCase(d[button].className)
    IN \/ \E s \in {text, label, className} :
              \E w \in {s_close, s_dismiss, s_cancel} : Includes(s, w)
       \/ d[button].dataDismiss
       \/ d[button].dataClose

IsCloseButton(d, button) ==
    LET text == ToLowerCase(TextContent(d, button))
        label == ToLowerCase(d[button].ariaLabel)
        className == ToLowerCase(d[button].className)
    IN \/ Includes(text, s_close)
       \/ Includes(text, s_dismiss)
       \/ Includes(text, s_cancel)
       \/ Includes(label, s_close)
       \/ Includes(label, s_dismiss)
       \/ Includes(className, s_close)
       \/ d[button].dataDismiss
       \/ d[button].dataClose

findCloseButtons(d, dialog) ==
    SelectSeq(CloseCandidates(d, dialog), LAMBDA b : IsCloseButton(d, b))

IsBackdropClass(e) ==
    LET className == ToLowerCase(e.className)
    IN \/ Includes(className, s_backdrop)
       \/ Includes(className, s_overlay)
       \/ Includes(className, s_mask)

\* the loop of findBackdrop over the siblings sibs, in order: the first one
\* that is not the dialog and has a backdrop class, NoNode for null
RECURSIVE BackdropIn(_, _, _)
BackdropIn(d, dialog, sibs) ==
    IF sibs = <<>> THEN NoNode
    ELSE IF Head(sibs) = dialog THEN BackdropIn(d, dialog, Tail(sibs))
    ELSE IF IsBackdropClass(d[Head(sibs)]) THEN Head(sibs)
    ELSE BackdropIn(d, dialog, Tail(sibs))

\* the same loop reaches a sibling whose className is no string
RECURSIVE BackdropLoopThrows(_, _, _)
BackdropLoopThrows(d, dialog, sibs) ==
    IF sibs = <<>> THEN FALSE
    ELSE IF Head(sibs) = dialog THEN BackdropLoopThrows(d, dialog, Tail(sibs))
    ELSE IF ClassNameThrows(d[Head(sibs)]) THEN TRUE
    ELSE IF IsBackdropClass(d[Head(sibs)]) THEN FALSE
    ELSE BackdropLoopThrows(d, dialog, Tail(sibs))

\* the loop of findBackdrop run from the last sibling to the first
findBackdropLast(d, dialog) ==
    LET sibs == SelectSeq(Children(d, ParentOf(d, dialog)),
                          LAMBDA n : n # dialog /\ IsBackdropClass(d[n]))
    IN IF sibs = <<>> THEN 0 - 1 ELSE sibs[Len(sibs)]

findBackdropThrows(d, dialog) ==
    BackdropLoopThrows(d, dialog, Children(d, ParentOf(d, dialog)))

findBackdrop(d, dialog) == BackdropIn(d, dialog, Children(d, ParentOf(d, dialog)))

createDialogPatternThrows(d, element) ==
    \/ findTriggersThrows(d, element)
    \/ findCloseButtonsThrows(d, element)
    \/ findBackdropThrows(d, element)

createDialogPattern(d, element, detectionMethod, confidence) ==
    [ type |-> "dialog",
      confidence |-> confidence,
      detectionMethod |-> detectionMethod,
      element |-> element,
      relatedElements |->
          [ triggers |-> findTriggers(d, element),
            closeButtons |-> findCloseButtons(d, element),
            backdrop |-> findBackdrop(d, element),
            focusableElements |-> getFocusableElements(d, element) ],
      metadata |->
          [ isModal |-> d[element].ariaModal = s_true,
            hasBackdrop |-> findBackdrop(d, element) # NoNode,
            isAlertDialog |-> getRole(d, element) = s_alertdialog ],
      issues |-> <<>> ]

\* querySelectorAll('[role="dialog"], [role="alertdialog"]')
ExplicitDialogElements(d) ==
    QuerySelectorAll(d, Body, LAMBDA e : e.role = s_dialog \/ e.role = s_alertdialog)

\* querySelectorAll('dialog')
NativeDialogElements(d) == QuerySelectorAll(d, Body, LAMBDA e : e.tag = "dialog")

detectExplicitDialogs(d) ==
    LET els == ExplicitDialogElements(d)
    IN [i \in 1..Len(els) |-> createDialogPattern(d, els[i], "explicit-role", "high")]

detectNativeDialogs(d) ==
    LET els == NativeDialogElements(d)
    IN [i \in 1..Len(els) |-> createDialogPattern(d, els[i], "native-element", "high")]

detectAllThrows(d) ==
    \E n \in Range(ExplicitDialogElements(d)) \cup Range(NativeDialogElements(d)) :
        createDialogPatternThrows(d, n)

\* a detector that runs the native-element pass first
detectAllNativeFirst(d) == detectNativeDialogs(d) \o detectExplicitDialogs(d)

\* a detector that matches an element once
detectAllOnce(d) ==
    detectExplicitDialogs(d)
        \o SelectSeq(detectNativeDialogs(d),
                     LAMBDA pattern :
                         pattern.element \notin Range(ExplicitDialogElements(d)))

detectAll(d) == detectExplicitDialogs(d) \o detectNativeDialogs(d)


---------------------------------------------------------------------------
(* patterns/dialog/validator                                               *)

DIALOG_RULES ==
    << [ id |-> "dialog-accessible-name", severity |-> "error",
         message |-> "Dialog must have an accessible name",
         suggestion |-> "Add aria-label or aria-labelledby attribute to the dialog" ],
       [ id |-> "dialog-close-button", severity |-> "error",
         message |-> "Dialog should contain a close button",
         suggestion |-> "Add a button with aria-label=\"Close\" or visible close text" ],
       [ id |-> "dialog-initially-hidden", severity |-> "warning",
         message |-> "Dialog should be hidden initially",
         suggestion |-> "Add hidden attribute or CSS display: none" ],
       [ id |-> "dialog-focusable-content", severity |-> "error",
         message |-> "Dialog contains no focusable elements",
         suggestion |-> "Add at least one button, link, or input element" ],
       [ id |-> "dialog-aria-modal", severity |-> "warning",
         message |-> "Dialog appears to be modal but missing aria-modal=\"true\"",
         suggestion |-> "Add aria-modal=\"true\" if this dialog is modal" ],
       [ id |-> "dialog-close-button-label", severity |-> "error",
         message |-> "Close button must have an accessible name",
         suggestion |-> "Add aria-label=\"Close\" or visible text to close button" ] >>

\* rule tests that fail when the rule does not apply: aria-modal without
\* looking for a backdrop, the close-button label with no close button
RuleTestUnconditional(id, d, pattern) ==
    CASE id = "dialog-accessible-name" -> hasAccessibleName(d, pattern.element)
      [] id = "dialog-close-button" -> Len(pattern.relatedElements.closeButtons) > 0
      [] id = "dialog-initially-hidden" -> isExplicitlyHidden(d[pattern.element])
      [] id = "dialog-focusable-content" ->
             Len(pattern.relatedElements.focusableElements) > 0
      [] id = "dialog-aria-modal" -> pattern.metadata.isModal
      [] id = "dialog-close-button-label" ->
             /\ pattern.relatedElements.closeButtons # <<>>
             /\ \A btn \in Range(pattern.relatedElements.closeButtons) :
                    hasAccessibleName(d, btn)

\* rule.test(pattern) of the rule with that id
RuleTest(id, d, pattern) ==
    CASE id = "dialog-accessible-name" -> hasAccessibleName(d, pattern.element)
      [] id = "dialog-close-button" -> Len(pattern.relatedElements.closeButtons) > 0
      [] id = "dialog-initially-hidden" -> isExplicitlyHidden(d[pattern.element])
      [] id = "dialog-focusable-content" ->
             Len(pattern.relatedElements.focusableElements) > 0
      [] id = "dialog-aria-modal" ->
             IF ~pattern.metadata.hasBackdrop THEN TRUE ELSE pattern.metadata.isModal
      [] id = "dialog-close-button-label" ->
             \A btn \in Range(pattern.relatedElements.closeButtons) :
                 hasAccessibleName(d, btn)

\* a rule test throws: every() stops at the first close button without a name
RECURSIVE EveryNamedThrows(_, _)
EveryNamedThrows(d, btns) ==
    IF btns = <<>> THEN FALSE
    ELSE IF getAccessibleNameThrows(d, Head(btns)) THEN TRUE
    ELSE IF ~hasAccessibleName(d, Head(btns)) THEN FALSE
    ELSE EveryNamedThrows(d, Tail(btns))

validateThrows(d, pattern) ==
    \/ getAccessibleNameThrows(d, pattern.element)
    \/ EveryNamedThrows(d, pattern.relatedElements.closeButtons)

Issue(rule, pattern) ==
    [ severity |-> rule.severity, message |-> rule.message,
      suggestion |-> rule.suggestion, ruleId |-> rule.id,
      element |-> pattern.element ]

\* a loop that returns at the first rule that fails
RECURSIVE ValidateFirstFailure(_, _, _)
ValidateFirstFailure(d, pattern, i) ==
    IF i > Len(DIALOG_RULES) THEN <<>>
    ELSE IF ~RuleTest(DIALOG_RULES[i].id, d, pattern)
    THEN <<Issue(DIALOG_RULES[i], pattern)>>
    ELSE ValidateFirstFailure(d, pattern, i + 1)

\* the loop of validate over the rules from index i on
RECURSIVE ValidateFrom(_, _, _)
ValidateFrom(d, pattern, i) ==
    IF i > Len(DIALOG_RULES) THEN <<>>
    ELSE (IF ~RuleTest(DIALOG_RULES[i].id, d, pattern)
          THEN <<Issue(DIALOG_RULES[i], pattern)>> ELSE <<>>)
         \o ValidateFrom(d, pattern, i + 1)

validate(d, pattern) == ValidateFrom(d, pattern, 1)

---------------------------------------------------------------------------
(* core/analyzer                                                           *)

\* new Analyzer(document, config): the defaults
AnalyzerConfig(config) ==
    [ minConfidence |->
          IF config.minConfidence = <<>> THEN "low" ELSE config.minConfidence[1],
      patterns |-> IF config.patterns = <<>> THEN <<>> ELSE config.patterns[1],
      includeSuggestions |->
          IF config.includeSuggestions = <<>> THEN TRUE
          ELSE config.includeSuggestions[1] ]

\* a removal that blanks the suggestion and leaves the field
DeleteSuggestionBlank(issue) == [issue EXCEPT !.suggestion = ""]

\* delete issue.suggestion
DeleteSuggestion(issue) == [k \in DOMAIN issue \ {"suggestion"} |-> issue[k]]

analyzeDialogsThrows(d) ==
    \/ detectAllThrows(d)
    \/ LET dialogs == detectAll(d)
       IN \E i \in DOMAIN dialogs : validateThrows(d, dialogs[i])

analyzeDialogs(d, config) ==
    LET dialogs == detectAll(d)
        issuesOf(dialog) ==
            LET issues == validate(d, dialog)
            IN IF ~config.includeSuggestions
               THEN [i \in 1..Len(issues) |-> DeleteSuggestion(issues[i])]
               ELSE issues
    IN [i \in 1..Len(dialogs) |-> [dialogs[i] EXCEPT !.issues = issuesOf(dialogs[i])]]

\* a test that lets every pattern type through
shouldAnalyzePatternAlways(config, patternType) == TRUE

shouldAnalyzePattern(config, patternType) ==
    IF Len(config.patterns) = 0 THEN TRUE
    ELSE patternType \in Range(config.patterns)

confidenceLevels == [high |-> 3, medium |-> 2, low |-> 1]

\* a filter that drops the matches at the threshold itself
filterByConfidenceStrict(config, patterns) ==
    LET threshold == confidenceLevels[config.minConfidence]
    IN SelectSeq(patterns, LAMBDA pattern : confidenceLevels[pattern.confidence] > threshold)

filterByConfidence(config, patterns) ==
    LET threshold == confidenceLevels[config.minConfidence]
    IN SelectSeq(patterns, LAMBDA pattern : confidenceLevels[pattern.confidence] >= threshold)

\* the number of issues of one severity over a sequence of patterns
RECURSIVE CountIssues(_, _)
CountIssues(patterns, severity) ==
    IF patterns = <<>> THEN 0
    ELSE Len(SelectSeq(Head(patterns).issues, LAMBDA issue : issue.severity = severity))
         + CountIssues(Tail(patterns), severity)

calculateSummary(patterns) ==
    [ patternsFound |-> Len(patterns),
      errors |-> CountIssues(patterns, "error"),
      warnings |-> CountIssues(patterns, "warning"),
      info |-> CountIssues(patterns, "info") ]

\* an analysis that throws only when the detector does
analyzeThrowsInDetectorOnly(d, rawConfig) ==
    /\ Len(AnalyzerConfig(rawConfig).patterns) = 0
           \/ "dialog" \in Range(AnalyzerConfig(rawConfig).patterns)
    /\ detectAllThrows(d)

\* analyze() throws instead of returning
analyzeThrows(d, rawConfig) ==
    /\ shouldAnalyzePattern(AnalyzerConfig(rawConfig), "dialog")
    /\ analyzeDialogsThrows(d)

analyze(d, rawConfig) ==
    LET config == AnalyzerConfig(rawConfig)
        patterns == IF shouldAnalyzePattern(config, "dialog")
                    THEN analyzeDialogs(d, config) ELSE <<>>
        filteredPatterns == filterByConfidence(config, patterns)
    IN [ summary |-> calculateSummary(filteredPatterns),
         patterns |-> filteredPatterns ]


---------------------------------------------------------------------------
(* The documents and configurations the model is checked on.               *)

\* <div>
E_div == Plain

\* <div role="dialog" id="d" aria-label="Hi" hidden>
E_dialog ==
    [Plain EXCEPT !.role = s_dialog, !.id = <<"d">>, !.ariaLabel = <<"H","i">>,
                  !.hidden = TRUE]

\* <dialog aria-modal="true">: a native dialog without a name, visible
E_native == [Plain EXCEPT !.tag = "dialog", !.ariaModal = s_true]

\* <dialog role="dialog" title="Hi" class="sr-only">: matched by both passes
E_both ==
    [Plain EXCEPT !.tag = "dialog", !.role = s_dialog, !.title = <<"H","i">>,
                  !.className = <<"s","r","-","o","n","l","y">>]

\* <button aria-controls="d">Close</button>
E_close ==
    [Plain EXCEPT !.tag = "button", !.text = <<"C","l","o","s","e">>,
                  !.ariaControls = <<"d">>]

\* <div role="button" class="Close-Overlay" data-target="#d">: a backdrop
\* next to a dialog, a close button without a name inside one
E_overlay ==
    [Plain EXCEPT !.role = s_button,
                  !.className = <<"C","l","o","s","e","-","O">> \o Tail(s_overlay),
                  !.dataTarget = <<"#","d">>]

\* <div role="alertdialog" id='x"'>: the id breaks the data-target selector
E_quoted ==
    [Plain EXCEPT !.role = s_alertdialog, !.id = <<"x", "\"">>]

\* <button>Cancel</button>
B_textCancel == [Plain EXCEPT !.tag = "button", !.text = <<"C","a","n","c","e","l">>]

\* <button aria-label="Cancel"></button>
B_labelCancel ==
    [Plain EXCEPT !.tag = "button", !.ariaLabel = <<"C","a","n","c","e","l">>]

\* <button aria-label="Dismiss"></button>
B_labelDismiss ==
    [Plain EXCEPT !.tag = "button", !.ariaLabel = <<"D">> \o Tail(s_dismiss)]

\* <button class="btn-dismiss"></button>
B_classDismiss ==
    [Plain EXCEPT !.tag = "button", !.className = <<"b","t","n","-">> \o s_dismiss]

\* <div role="button" class="cancel"></div>
B_classCancel == [Plain EXCEPT !.role = s_button, !.className = s_cancel]

\* <button data-close></button>
B_dataClose == [Plain EXCEPT !.tag = "button", !.dataClose = TRUE]

\* <button>OK</button>
B_ok == [Plain EXCEPT !.tag = "button", !.text = <<"O","K">>]

\* <a class="close">Dismiss</a>: not a button
B_link ==
    [Plain EXCEPT !.tag = "a", !.className = s_close,
                  !.text = <<"D">> \o Tail(s_dismiss)]

\* <div role="dialog" id="x\z">: a backslash before a letter that is no
\* hexadecimal digit, which a selector reads as that letter
T_slashed == [Plain EXCEPT !.role = s_dialog, !.id = <<"x", "\\", "z">>]

\* <button aria-controls="d" data-target="d">
T_both == [Plain EXCEPT !.tag = "button", !.ariaControls = <<"d">>,
                        !.dataTarget = <<"d">>]

\* <button aria-controls="x\z">
T_toSlashed == [Plain EXCEPT !.tag = "button", !.ariaControls = <<"x", "\\", "z">>]

\* <button data-target="xz">
T_toXZ == [Plain EXCEPT !.tag = "button", !.dataTarget = <<"x", "z">>]

\* <input role="button" data-close id='y"'>: a close button whose id
\* breaks the label[for="..."] selector of its accessible name
E_badInput ==
    [Plain EXCEPT !.tag = "input", !.role = s_button, !.dataClose = TRUE,
                  !.id = <<"y", "\"">>]

\* the elements a document of the model is made of, by name
Palette ==
    [ div |-> E_div, dialog |-> E_dialog, native |-> E_native, both |-> E_both,
      close |-> E_close, overlay |-> E_overlay, quoted |-> E_quoted,
      textCancel |-> B_textCancel, labelCancel |-> B_labelCancel,
      labelDismiss |-> B_labelDismiss, classDismiss |-> B_classDismiss,
      classCancel |-> B_classCancel, dataClose |-> B_dataClose, ok |-> B_ok,
      link |-> B_link,
      slashed |-> T_slashed, byBoth |-> T_both, toSlashed |-> T_toSlashed,
      toXZ |-> T_toXZ, badInput |-> E_badInput ]

\* the elements the documents of the analyzer are made of
DocKinds == {"div", "dialog", "native", "both", "close", "overlay", "quoted"}

\* the elements put in and around a dialog to see which of them the
\* detector takes for close buttons
ButtonKinds ==
    {"textCancel", "labelCancel", "labelDismiss", "classDismiss", "classCancel",
     "dataClose", "ok", "link"}

\* the elements of a document state: each is held as the name of its
\* element and the index of its parent
Dom(ds) == [i \in 1..Len(ds) |-> [Palette[ds[i].kind] EXCEPT !.parent = ds[i].parent]]

\* where the next element of d can be put: under Body, under the last
\* element, or under one of the last element's ancestors
ValidParents(d) ==
    {Body} \cup {p \in Nodes(d) : Contains(d, p, Len(d))}

\* the well-formed documents of exactly n elements
RECURSIVE DocsOfLen(_)
DocsOfLen(n) ==
    IF n = 0 THEN {<<>>}
    ELSE UNION { { Append(d, [kind |-> k, parent |-> p]) :
                       k \in DocKinds, p \in ValidParents(d) } :
                 d \in DocsOfLen(n - 1) }

Docs == UNION {DocsOfLen(n) : n \in 0..MaxNodes}

\* the documents of a dialog followed by exactly n elements of ButtonKinds,
\* each of them a child of the dialog or of the body
RECURSIVE ButtonDocsOfLen(_)
ButtonDocsOfLen(n) ==
    IF n = 0 THEN { << [kind |-> "dialog", parent |-> Body] >> }
    ELSE { Append(d, [kind |-> k, parent |-> p]) :
               d \in ButtonDocsOfLen(n - 1), k \in ButtonKinds, p \in {Body, 1} }

ButtonDocs == UNION {ButtonDocsOfLen(n) : n \in 0..MaxNodes}

\* the elements put next to one another to see which of them the detector
\* takes for the backdrop of a dialog
SiblingKinds == {"div", "overlay", "dialog"}

\* the documents of exactly n elements of SiblingKinds, each of them a
\* child of the body or of the first element
RECURSIVE SiblingDocsOfLen(_)
SiblingDocsOfLen(n) ==
    IF n = 0 THEN {<<>>}
    ELSE UNION { { Append(d, [kind |-> k, parent |-> p]) :
                       k \in SiblingKinds,
                       p \in IF d = <<>> THEN {Body} ELSE {Body, 1} } :
                 d \in SiblingDocsOfLen(n - 1) }

\* the elements put in one document to see which of them the detector
\* takes for the triggers of a dialog
TriggerKinds ==
    {"dialog", "native", "slashed", "close", "overlay", "byBoth", "toSlashed",
     "toXZ"}

\* the documents of exactly n elements of TriggerKinds, all children of
\* the body
RECURSIVE TriggerDocsOfLen(_)
TriggerDocsOfLen(n) ==
    IF n = 0 THEN {<<>>}
    ELSE { Append(d, [kind |-> k, parent |-> Body]) :
               d \in TriggerDocsOfLen(n - 1), k \in TriggerKinds }

TriggerDocs == UNION {TriggerDocsOfLen(n) : n \in 1..(MaxNodes + 1)}

\* the documents of a dialog followed by exactly n overlays and named
\* buttons, each of them a child of the dialog or of the body: an overlay
\* is a backdrop next to the dialog and a close button without a name in it
RECURSIVE RuleDocsOfLen(_)
RuleDocsOfLen(n) ==
    IF n = 0 THEN { << [kind |-> k, parent |-> Body] >> : k \in {"dialog", "native"} }
    ELSE { Append(d, [kind |-> k, parent |-> p]) :
               d \in RuleDocsOfLen(n - 1), k \in {"overlay", "close"},
               p \in {Body, 1} }

RuleDocs == UNION {RuleDocsOfLen(n) : n \in 0..(MaxNodes + 1)}

\* the elements of the documents on which the detector or a rule test may
\* throw
ThrowKinds == {"dialog", "native", "quoted", "badInput"}

\* the well-formed documents of exactly n elements of ThrowKinds
RECURSIVE ThrowDocsOfLen(_)
ThrowDocsOfLen(n) ==
    IF n = 0 THEN {<<>>}
    ELSE UNION { { Append(d, [kind |-> k, parent |-> p]) :
                       k \in ThrowKinds, p \in ValidParents(d) } :
                 d \in ThrowDocsOfLen(n - 1) }

ThrowDocs == UNION {ThrowDocsOfLen(n) : n \in 1..(MaxNodes + 1)}

SiblingDocs == UNION {SiblingDocsOfLen(n) : n \in 1..MaxSiblings}

Confidence == {"low", "medium", "high"}

\* An optional field of a config object is the empty sequence when it is
\* absent and a one-element sequence holding its value when it is given.
AllConfigs ==
    [ minConfidence : {<<>>} \cup {<<c>> : c \in Confidence},
      patterns : {<<>>, << <<>> >>, << <<"dialog">> >>, << <<"tabs">> >>,
                  << <<"tabs", "dialog">> >>},
      includeSuggestions : {<<>>, <<TRUE>>, <<FALSE>>} ]

DefaultConfig ==
    [minConfidence |-> <<>>, patterns |-> <<>>, includeSuggestions |-> <<>>]

\* the configs the model is checked on: at most one field is given
Configs ==
    {c \in AllConfigs :
        Cardinality({f \in DOMAIN c : c[f] # <<>>}) <= 1}


---------------------------------------------------------------------------
(* runner/browser: BrowserRunner                                           *)

Runners == {"A", "B"}

MIN_SCAN_DURATION == 500

\* how long a synchronous analysis may take, in milliseconds
Durations == {0, 250, 500}

\* how far the clock may advance in one step while no code runs
Ticks == {250}

\* no time: the settle time of a pending call, the timer of a call without one
Never == 0 - 1

emptyResult ==
    [ summary |-> [patternsFound |-> 0, errors |-> 0, warnings |-> 0, info |-> 0],
      patterns |-> <<>> ]

\* run() without its guard
ShortCircuitsNever(r) == FALSE

\* run() with one flag shared by all instances
ShortCircuitsShared(r) == \E q \in Runners : isScanRunning[q]

\* the guard at the head of run(): if (this.isScanRunning)
ShortCircuits(r) == isScanRunning[r]

\* runOnElement() without its guard
ShortCircuitsOnElementNever(r) == FALSE

\* the guard at the head of runOnElement(): if (this.isScanRunning)
ShortCircuitsOnElement(r) == isScanRunning[r]

\* an acceptance that leaves the flag as it is
SetRunningForgets(flags, r) == flags

\* this.isScanRunning = true
SetRunning(flags, r) == [flags EXCEPT ![r] = TRUE]

\* a finally block that leaves the flag set
FinallyKeepsFlag(flags, r) == flags

\* finally { this.isScanRunning = false ... }
Finally(flags, r) == [flags EXCEPT ![r] = FALSE]

\* what a callback given as config.onScanStateChange may do: return, throw
\* when called with true, throw when called with false
Callbacks == {"returns", "throwsOnTrue", "throwsOnFalse"}

\* this.config.onScanStateChange?.(true) throws, at the head of the call
\* and outside its try block
StartThrows(r) == onChange[r] = "throwsOnTrue"

\* how the promise settles after the finally block: an exception of
\* this.config.onScanStateChange?.(false) replaces the return value or the
\* exception that was on its way
FinallyOutcome(r, outcome) ==
    IF onChange[r] = "throwsOnFalse" THEN "rejected" ELSE outcome

\* what the caller gets after the finally block: nothing when it throws
FinallyResult(r, result) ==
    IF onChange[r] = "throwsOnFalse" THEN emptyResult ELSE result

\* a runner that only reports the start of a scan
onScanStateChangeStartOnly(ns, r, isRunning) ==
    IF isRunning THEN [ns EXCEPT ![r] = Append(@, isRunning)] ELSE ns

\* this.config.onScanStateChange?.(isRunning): the callback records its argument
onScanStateChange(ns, r, isRunning) == [ns EXCEPT ![r] = Append(@, isRunning)]

\* run() without its minimum duration
WaitForNothing(elapsed) == 0

\* run() that waits the whole minimum duration after every analysis
WaitForAlways(elapsed) == MIN_SCAN_DURATION

\* the delay handed to setTimeout, 0 when run() does not wait at all
WaitFor(elapsed) ==
    IF elapsed < MIN_SCAN_DURATION THEN MIN_SCAN_DURATION - elapsed ELSE 0

\* run() without a catch block, like runOnElement()
runRethrow == [outcome |-> "rejected", result |-> emptyResult]

\* the catch block of run(): the promise resolves to the empty result
runCatch == [outcome |-> "caught", result |-> emptyResult]

\* runOnElement() with the catch block of run()
runOnElementCatch == [outcome |-> "caught", result |-> emptyResult]

\* runOnElement() has no catch block: after finally the promise rejects
\* with the error, and the caller gets no result
runOnElementThrow == [outcome |-> "rejected", result |-> emptyResult]

\* a filter that also wants the triggers of a match inside the element
filteredPatternsWithTriggers(d, element, patterns) ==
    SelectSeq(patterns, LAMBDA pattern :
        /\ Contains(d, element, pattern.element)
        /\ \A t \in Range(pattern.relatedElements.triggers) : Contains(d, element, t))

\* the filter of runOnElement: element.contains(pattern.element)
filteredPatterns(d, element, patterns) ==
    SelectSeq(patterns, LAMBDA pattern : Contains(d, element, pattern.element))

\* a recalculation that counts every issue as an error
runOnElementSummaryAllErrors(patterns) ==
    [ patternsFound |-> Len(patterns),
      errors |-> CountIssues(patterns, "error") + CountIssues(patterns, "warning")
                 + CountIssues(patterns, "info"),
      warnings |-> CountIssues(patterns, "warning"),
      info |-> CountIssues(patterns, "info") ]

\* the summary runOnElement recalculates over the filtered patterns
runOnElementSummary(patterns) ==
    [ patternsFound |-> Len(patterns),
      errors |-> CountIssues(patterns, "error"),
      warnings |-> CountIssues(patterns, "warning"),
      info |-> CountIssues(patterns, "info") ]

\* what the try block of runOnElement returns
runOnElementResult(d, config, element) ==
    LET fullResult == analyze(d, config)
        kept == filteredPatterns(d, element, fullResult.patterns)
    IN [summary |-> runOnElementSummary(kept), patterns |-> kept]

\* the calls of runner r whose promise has not settled
InFlight(cs, r) == {i \in DOMAIN cs : cs[i].runner = r /\ cs[i].pc = "waiting"}

\* what the callback of runner r is told in this step
NewNotes(r) == SubSeq(notes'[r], Len(notes[r]) + 1, Len(notes'[r]))

\* the record of a call issued now: what was asked and what the caller got.
\* start, took, settled and timer are times: when the call was made, how
\* long its analysis ran, when its promise settled, when its timer is due
Call(r, op, target, pc, outcome, result, took, settled, timer, analyses) ==
    [ runner |-> r, op |-> op, target |-> target, pc |-> pc,
      outcome |-> outcome, result |-> result,
      start |-> clock, took |-> took, settled |-> settled, timer |-> timer,
      \* the number of Analyzer.analyze() calls made for it
      analyses |-> analyses,
      \* what it has told the callback so far
      fired |-> NewNotes(r),
      \* whether a call of the same, of another runner was unsettled
      sameInFlight |-> InFlight(calls, r) # {},
      otherInFlight |-> \E q \in Runners \ {r} : InFlight(calls, q) # {} ]

\* async run(): up to its first await, or to its end when it does not wait
Run(r, took) ==
    /\ Len(calls) < MaxCalls
    /\ clock + took <= MaxClock
    /\ UNCHANGED <<onChange, page, e2e, injectedPages, doc, cfg, acfg, last, prev, ncalls, filt, within>>
    /\ IF ShortCircuits(r)
       THEN /\ UNCHANGED <<isScanRunning, notes, clock>>
            /\ calls' = Append(calls,
                   Call(r, "run", NoNode, "done", "busy", emptyResult,
                        0, clock, Never, 0))
       ELSE IF StartThrows(r)
       THEN \* the flag is set, the callback throws, the promise rejects
            /\ isScanRunning' = SetRunning(isScanRunning, r)
            /\ notes' = onScanStateChange(notes, r, TRUE)
            /\ UNCHANGED clock
            /\ calls' = Append(calls,
                   Call(r, "run", NoNode, "done", "rejected", emptyResult,
                        0, clock, Never, 0))
       ELSE /\ clock' = clock + took
            /\ IF analyzeThrows(Dom(doc), cfg[r])
               THEN \* catch, then finally
                    /\ isScanRunning' = Finally(SetRunning(isScanRunning, r), r)
                    /\ notes' = onScanStateChange(onScanStateChange(notes, r, TRUE), r, FALSE)
                    /\ calls' = Append(calls,
                           Call(r, "run", NoNode, "done",
                                FinallyOutcome(r, runCatch.outcome),
                                FinallyResult(r, runCatch.result),
                                took, clock + took, Never, 1))
               ELSE IF WaitFor(took) > 0
               THEN \* await new Promise(resolve => setTimeout(resolve, ...))
                    /\ isScanRunning' = SetRunning(isScanRunning, r)
                    /\ notes' = onScanStateChange(notes, r, TRUE)
                    /\ calls' = Append(calls,
                           Call(r, "run", NoNode, "waiting", "pending",
                                analyze(Dom(doc), cfg[r]), took, Never,
                                clock + took + WaitFor(took), 1))
               ELSE \* return result, then finally
                    /\ isScanRunning' = Finally(SetRunning(isScanRunning, r), r)
                    /\ notes' = onScanStateChange(onScanStateChange(notes, r, TRUE), r, FALSE)
                    /\ calls' = Append(calls,
                           Call(r, "run", NoNode, "done", FinallyOutcome(r, "ok"),
                                FinallyResult(r, analyze(Dom(doc), cfg[r])),
                                took, clock + took, Never, 1))

\* the timer of a waiting run() is due: return result, then finally
TimerFires(i) ==
    /\ i \in DOMAIN calls
    /\ calls[i].pc = "waiting"
    /\ clock >= calls[i].timer
    /\ isScanRunning' = Finally(isScanRunning, calls[i].runner)
    /\ notes' = onScanStateChange(notes, calls[i].runner, FALSE)
    /\ calls' = [calls EXCEPT ![i].pc = "done",
                              ![i].outcome = FinallyOutcome(calls[i].runner, "ok"),
                              ![i].result = FinallyResult(calls[i].runner, @),
                              ![i].settled = clock,
                              ![i].fired = @ \o NewNotes(calls[i].runner)]
    /\ UNCHANGED <<onChange, page, e2e, injectedPages, doc, cfg, clock, acfg, last, prev, ncalls, filt, within>>

\* async runOnElement(element): it has no await, so it runs to its end
RunOnElement(r, element, took) ==
    /\ Len(calls) < MaxCalls
    /\ clock + took <= MaxClock
    /\ element \in Nodes(doc)
    /\ UNCHANGED <<onChange, page, e2e, injectedPages, doc, cfg, acfg, last, prev, ncalls, filt, within>>
    /\ IF ShortCircuitsOnElement(r)
       THEN /\ UNCHANGED <<isScanRunning, notes, clock>>
            /\ calls' = Append(calls,
                   Call(r, "runOnElement", element, "done", "busy", emptyResult,
                        0, clock, Never, 0))
       ELSE IF StartThrows(r)
       THEN \* the flag is set, the callback throws, the promise rejects
            /\ isScanRunning' = SetRunning(isScanRunning, r)
            /\ notes' = onScanStateChange(notes, r, TRUE)
            /\ UNCHANGED clock
            /\ calls' = Append(calls,
                   Call(r, "runOnElement", element, "done", "rejected",
                        emptyResult, 0, clock, Never, 0))
       ELSE /\ clock' = clock + took
            /\ isScanRunning' = Finally(SetRunning(isScanRunning, r), r)
            /\ notes' = onScanStateChange(onScanStateChange(notes, r, TRUE), r, FALSE)
            /\ IF analyzeThrows(Dom(doc), cfg[r])
               THEN \* no catch block: finally, then the promise rejects
                    calls' = Append(calls,
                        Call(r, "runOnElement", element, "done",
                             runOnElementThrow.outcome, runOnElementThrow.result,
                             took, clock + took, Never, 1))
               ELSE calls' = Append(calls,
                        Call(r, "runOnElement", element, "done",
                             FinallyOutcome(r, "ok"),
                             FinallyResult(r, runOnElementResult(Dom(doc), cfg[r], element)),
                             took, clock + took, Never, 1))

\* time passes while no code runs
Tick(ms) ==
    /\ clock + ms <= MaxClock
    /\ clock' = clock + ms
    /\ UNCHANGED <<onChange, page, e2e, injectedPages, doc, cfg, isScanRunning, calls, notes, acfg, last, prev, ncalls,
                   filt, within>>

---------------------------------------------------------------------------
(* runner/node: NodeRunner. The HTML string, the body of the URL and the   *)
(* file all hold the document doc.                                         *)

\* what fetch(url) may settle with: a response that is ok, one that is not,
\* a network error
Responses == {"ok", "notOk", "error"}

\* the calls of NodeRunner r that hold its flag and have not settled
NodeScanning(cs, r) ==
    {i \in DOMAIN cs : cs[i].runner = r /\ cs[i].pc \in {"fetch", "text"}}

\* the analyzeFile() calls of NodeRunner r that have not settled
NodeReading(cs, r) == {i \in DOMAIN cs : cs[i].runner = r /\ cs[i].pc = "file"}

\* the record of a NodeRunner call issued now
NodeCall(r, op, pc, outcome, result, analyses) ==
    [ runner |-> r, op |-> op, target |-> NoNode, pc |-> pc,
      outcome |-> outcome, result |-> result, analyses |-> analyses,
      fired |-> NewNotes(r),
      \* whether a flagged scan, an analyzeFile() of the runner was unsettled
      scanInFlight |-> NodeScanning(calls, r) # {},
      fileInFlight |-> NodeReading(calls, r) # {} ]

\* the try, catch and finally blocks around new Analyzer(...).analyze():
\* what the promise settles with
NodeOutcome(r) ==
    IF analyzeThrows(Dom(doc), cfg[r])
    THEN [outcome |-> FinallyOutcome(r, "caught"), result |-> emptyResult]
    ELSE [outcome |-> FinallyOutcome(r, "ok"),
          result |-> FinallyResult(r, analyze(Dom(doc), cfg[r]))]

\* analyzeFile has a catch block and no finally: no callback is called
NodeFileOutcome(r, readable) ==
    IF ~readable \/ analyzeThrows(Dom(doc), cfg[r])
    THEN [outcome |-> "caught", result |-> emptyResult]
    ELSE [outcome |-> "ok", result |-> analyze(Dom(doc), cfg[r])]

\* an analyzeFile() that takes part in the single-flight guard
analyzeFileGuarded(r) == isScanRunning[r]

\* analyzeFile() does not read this.isScanRunning
analyzeFileShortCircuits(r) == FALSE

\* async analyzeHTML(html): it has no await, so it runs to its end
AnalyzeHTML(r) ==
    /\ Len(calls) < MaxCalls
    /\ UNCHANGED <<onChange, page, e2e, injectedPages, doc, cfg, clock, acfg, last, prev, ncalls, filt, within>>
    /\ IF isScanRunning[r]
       THEN /\ UNCHANGED <<isScanRunning, notes>>
            /\ calls' = Append(calls,
                   NodeCall(r, "analyzeHTML", "done", "busy", emptyResult, 0))
       ELSE IF StartThrows(r)
       THEN /\ isScanRunning' = SetRunning(isScanRunning, r)
            /\ notes' = onScanStateChange(notes, r, TRUE)
            /\ calls' = Append(calls,
                   NodeCall(r, "analyzeHTML", "done", "rejected", emptyResult, 0))
       ELSE /\ isScanRunning' = Finally(SetRunning(isScanRunning, r), r)
            /\ notes' = onScanStateChange(onScanStateChange(notes, r, TRUE), r, FALSE)
            /\ calls' = Append(calls,
                   NodeCall(r, "analyzeHTML", "done", NodeOutcome(r).outcome,
                            NodeOutcome(r).result, 1))

\* async analyzeURL(url): up to await fetch(url)
AnalyzeURL(r) ==
    /\ Len(calls) < MaxCalls
    /\ UNCHANGED <<onChange, page, e2e, injectedPages, doc, cfg, clock, acfg, last, prev, ncalls, filt, within>>
    /\ IF isScanRunning[r]
       THEN /\ UNCHANGED <<isScanRunning, notes>>
            /\ calls' = Append(calls,
                   NodeCall(r, "analyzeURL", "done", "busy", emptyResult, 0))
       ELSE IF StartThrows(r)
       THEN /\ isScanRunning' = SetRunning(isScanRunning, r)
            /\ notes' = onScanStateChange(notes, r, TRUE)
            /\ calls' = Append(calls,
                   NodeCall(r, "analyzeURL", "done", "rejected", emptyResult, 0))
       ELSE /\ isScanRunning' = SetRunning(isScanRunning, r)
            /\ notes' = onScanStateChange(notes, r, TRUE)
            /\ calls' = Append(calls,
                   NodeCall(r, "analyzeURL", "fetch", "pending", emptyResult, 0))

\* fetch(url) settles: on to await response.text(), or, for a response
\* that is not ok and for a network error, to catch and finally
FetchSettles(i, response) ==
    /\ i \in DOMAIN calls
    /\ calls[i].pc = "fetch"
    /\ UNCHANGED <<onChange, page, e2e, injectedPages, doc, cfg, clock, acfg, last, prev, ncalls, filt, within>>
    /\ IF response = "ok"
       THEN /\ calls' = [calls EXCEPT ![i].pc = "text"]
            /\ UNCHANGED <<isScanRunning, notes>>
       ELSE /\ isScanRunning' = Finally(isScanRunning, calls[i].runner)
            /\ notes' = onScanStateChange(notes, calls[i].runner, FALSE)
            /\ calls' = [calls EXCEPT
                   ![i].pc = "done",
                   ![i].outcome = FinallyOutcome(calls[i].runner, "caught"),
                   ![i].fired = @ \o NewNotes(calls[i].runner)]

\* response.text() settles: the analysis, then finally
TextSettles(i) ==
    /\ i \in DOMAIN calls
    /\ calls[i].pc = "text"
    /\ UNCHANGED <<onChange, page, e2e, injectedPages, doc, cfg, clock, acfg, last, prev, ncalls, filt, within>>
    /\ isScanRunning' = Finally(isScanRunning, calls[i].runner)
    /\ notes' = onScanStateChange(notes, calls[i].runner, FALSE)
    /\ calls' = [calls EXCEPT
           ![i].pc = "done",
           ![i].outcome = NodeOutcome(calls[i].runner).outcome,
           ![i].result = NodeOutcome(calls[i].runner).result,
           ![i].analyses = 1,
           ![i].fired = @ \o NewNotes(calls[i].runner)]

\* async analyzeFile(filePath): up to its first await, the import of fs
AnalyzeFile(r) ==
    /\ Len(calls) < MaxCalls
    /\ UNCHANGED <<onChange, page, e2e, injectedPages, doc, cfg, clock, acfg, last, prev, ncalls, filt, within>>
    /\ UNCHANGED <<isScanRunning, notes>>
    /\ IF analyzeFileShortCircuits(r)
       THEN calls' = Append(calls,
                NodeCall(r, "analyzeFile", "done", "busy", emptyResult, 0))
       ELSE calls' = Append(calls,
                NodeCall(r, "analyzeFile", "file", "pending", emptyResult, 0))

\* the imports and fs.readFile settle: the analysis of the file, or the
\* catch block when the file cannot be read
FileSettles(i, readable) ==
    /\ i \in DOMAIN calls
    /\ calls[i].pc = "file"
    /\ UNCHANGED <<onChange, page, e2e, injectedPages, doc, cfg, clock, acfg, last, prev, ncalls, filt, within>>
    /\ UNCHANGED <<isScanRunning, notes>>
    /\ calls' = [calls EXCEPT
           ![i].pc = "done",
           ![i].outcome = NodeFileOutcome(calls[i].runner, readable).outcome,
           ![i].result = NodeFileOutcome(calls[i].runner, readable).result,
           ![i].analyses = IF readable THEN 1 ELSE 0]

---------------------------------------------------------------------------
(* A stand-alone Analyzer, and its pure steps applied on their own.        *)


\* const result = new Analyzer(document, config).analyze()
Analyze ==
    /\ ncalls < MaxAnalyze
    /\ filt = <<>> /\ within = <<>>
    /\ prev' = last
    /\ LET threw == analyzeThrows(Dom(doc), acfg)
       IN last' = << [ threw |-> threw,
                       result |-> IF threw THEN emptyResult
                                  ELSE analyze(Dom(doc), acfg) ] >>
    /\ ncalls' = ncalls + 1
    /\ UNCHANGED <<onChange, page, e2e, injectedPages, doc, cfg, isScanRunning, calls, notes, clock, acfg, filt, within>>

\* the confidence levels in a fixed cyclic order
ConfidenceCycle == <<"low", "medium", "high">>

\* the patterns with the confidence of the i-th set to the (i + k)-th level
\* of the cycle
RECURSIVE WithConfidence(_, _)
WithConfidence(patterns, k) ==
    IF patterns = <<>> THEN <<>>
    ELSE << [Head(patterns) EXCEPT !.confidence = ConfidenceCycle[(k % 3) + 1]] >>
         \o WithConfidence(Tail(patterns), k + 1)

\* filterByConfidence applied to the detected patterns, with the confidence
\* a detector may assign to the i-th of them: any level of the Confidence type
FilterByConfidence(k) ==
    /\ ncalls = 0 /\ filt = <<>> /\ within = <<>>
    /\ ~analyzeThrows(Dom(doc), acfg)
    /\ LET config == AnalyzerConfig(acfg)
           found == analyzeDialogs(Dom(doc), config)
           input == WithConfidence(found, k + 1)
       IN filt' = << [ input |-> input,
                       output |-> filterByConfidence(config, input) ] >>
    /\ UNCHANGED <<onChange, page, e2e, injectedPages, doc, cfg, isScanRunning, calls, notes, clock, acfg, last, prev,
                   ncalls, within>>

\* the try block of runOnElement(element) applied to the document
AnalyzeWithin(element) ==
    /\ ncalls = 0 /\ filt = <<>> /\ within = <<>>
    /\ element \in Nodes(doc)
    /\ ~analyzeThrows(Dom(doc), acfg)
    /\ within' = << [ element |-> element,
                      result |-> runOnElementResult(Dom(doc), acfg, element) ] >>
    /\ UNCHANGED <<onChange, page, e2e, injectedPages, doc, cfg, isScanRunning, calls, notes, clock, acfg, last, prev,
                   ncalls, filt>>

---------------------------------------------------------------------------
(* e2e: analyze(page), isBundleLoaded, injectBundle                        *)

\* what detectDriver can return
Drivers == {"playwright", "puppeteer", "webdriverio", "unknown"}

\* the options of an e2e call: analyze(page) with none given, so that
\* includeSuggestions is true and no selector is set
E2EConfig == [DefaultConfig EXCEPT !.includeSuggestions = <<TRUE>>]

\* what runner.run() resolves to inside the page
E2EResult ==
    IF analyzeThrows(Dom(doc), E2EConfig) THEN runCatch.result
    ELSE analyze(Dom(doc), E2EConfig)

\* the e2e calls that have not returned
E2EInFlight == {i \in DOMAIN e2e : e2e[i].pc # "done"}

\* options.selector: absent, or the id selector of that id ('#d', '#no')
E2ESelectors == {<<>>, <<"d">>, <<"n", "o">>}

\* document.querySelector(selector) for an id selector: the first element
\* with that id, NoNode for null
E2EQuerySelector(selector) == GetElementById(Dom(doc), selector)

\* one BrowserRunner for all calls on the page: busy while any of them scans
E2ERunnerOfPageIsBusy(i) == \E j \in DOMAIN e2e : e2e[j].pc = "scanning"

\* the guard of run() on the BrowserRunner the call has just built: the
\* flag of a runner is up while its own run() waits
E2ERunnerIsBusy(i) == e2e[i].pc = "scanning"

\* analyze(page, options) up to its first await: detectDriver, then the
\* request to evaluate the isBundleLoaded test in the page
E2EAnalyze(selector) ==
    /\ Len(e2e) < MaxE2ECalls
    /\ e2e' = Append(e2e, [ pc |-> "check", driver |-> page.driver,
                            selector |-> selector,
                            injected |-> FALSE, outcome |-> "pending",
                            result |-> emptyResult,
                            overlaps |-> E2EInFlight # {},
                            context |-> page.navigations,
                            \* the document context the analysis started in
                            ranIn |-> NoNode,
                            \* whether the guard of the runner turned it away
                            busy |-> FALSE ])
    /\ UNCHANGED <<onChange, page, injectedPages, doc, cfg, isScanRunning, calls, notes, clock,
                   acfg, last, prev, ncalls, filt, within>>

\* isBundleLoaded: the page evaluates typeof window.interaxtion, and the
\* call goes on to injectBundle or past it
E2EIsBundleLoaded(i) ==
    /\ e2e[i].pc = "check"
    /\ e2e' = [e2e EXCEPT ![i].pc = IF page.loaded THEN "run" ELSE "inject"]
    /\ UNCHANGED <<onChange, page, injectedPages, doc, cfg, isScanRunning, calls, notes, clock,
                   acfg, last, prev, ncalls, filt, within>>

\* injectBundle: whichever the driver, addScriptTag, execute or evaluate runs
\* the bundle in the page, which defines window.interaxtion; then
\* injectedPages.add(page)
E2EInjectBundle(i) ==
    /\ e2e[i].pc = "inject"
    /\ e2e[i].driver \in Drivers
    /\ page' = [page EXCEPT !.loaded = TRUE, !.injections = @ + 1]
    /\ injectedPages' = TRUE
    /\ e2e' = [e2e EXCEPT ![i].pc = "run", ![i].injected = TRUE]
    /\ UNCHANGED <<onChange, doc, cfg, isScanRunning, calls, notes, clock,
                   acfg, last, prev, ncalls, filt, within>>

\* how the call ends when page.evaluate settles in this step
E2EDone(i, outcome, result, busy) ==
    e2e' = [e2e EXCEPT ![i].pc = "done", ![i].outcome = outcome,
                       ![i].result = result, ![i].busy = busy,
                       ![i].ranIn = page.navigations]

\* page.evaluate of the analysis, up to the await of run(): it throws when
\* window.interaxtion is not there or the selector matches no element;
\* with a selector it returns what runOnElement() of a new BrowserRunner
\* settles with, without one it calls run() of a new BrowserRunner
E2ERun(i, took) ==
    /\ e2e[i].pc = "run"
    /\ UNCHANGED <<onChange, page, injectedPages, doc, cfg, isScanRunning, calls, notes, clock,
                   acfg, last, prev, ncalls, filt, within>>
    /\ IF ~page.loaded
       THEN E2EDone(i, "rejected", emptyResult, FALSE)
       ELSE IF e2e[i].selector # <<>>
       THEN IF E2EQuerySelector(e2e[i].selector) = NoNode
            THEN E2EDone(i, "rejected", emptyResult, FALSE)
            ELSE IF analyzeThrows(Dom(doc), E2EConfig)
            THEN E2EDone(i, runOnElementThrow.outcome, runOnElementThrow.result, FALSE)
            ELSE E2EDone(i, "ok",
                         runOnElementResult(Dom(doc), E2EConfig,
                                            E2EQuerySelector(e2e[i].selector)),
                         FALSE)
       ELSE IF E2ERunnerIsBusy(i)
       THEN E2EDone(i, "ok", emptyResult, TRUE)
       ELSE IF analyzeThrows(Dom(doc), E2EConfig) \/ WaitFor(took) = 0
       THEN E2EDone(i, "ok", E2EResult, FALSE)
       ELSE e2e' = [e2e EXCEPT ![i].pc = "scanning", ![i].ranIn = page.navigations]

\* the timer of run() is due in the page: page.evaluate resolves to the
\* result, or rejects when the page has left the document the scan ran in
E2ESettles(i) ==
    /\ e2e[i].pc = "scanning"
    /\ UNCHANGED <<onChange, page, injectedPages, doc, cfg, isScanRunning, calls, notes, clock,
                   acfg, last, prev, ncalls, filt, within>>
    /\ IF e2e[i].ranIn = page.navigations
       THEN e2e' = [e2e EXCEPT ![i].pc = "done", ![i].outcome = "ok",
                               ![i].result = E2EResult]
       ELSE e2e' = [e2e EXCEPT ![i].pc = "done", ![i].outcome = "rejected"]

\* page.goto(): the page gets a new document context, without the bundle
E2EGoto ==
    /\ page.navigations < MaxNavigations
    /\ page' = [page EXCEPT !.loaded = FALSE, !.injections = 0,
                            !.navigations = @ + 1]
    /\ UNCHANGED <<onChange, e2e, injectedPages, doc, cfg, isScanRunning, calls, notes, clock,
                   acfg, last, prev, ncalls, filt, within>>

---------------------------------------------------------------------------
(* The specifications.                                                     *)

\* the documents the runners are started on: no element; one dialog; a
\* dialog whose id makes the analysis throw; a dialog with its close button
\* inside; a dialog with its trigger beside it
RunnerDocs ==
    { <<>>,
      << [kind |-> "dialog", parent |-> Body] >>,
      << [kind |-> "quoted", parent |-> Body] >>,
      << [kind |-> "dialog", parent |-> Body], [kind |-> "close", parent |-> 1] >>,
      << [kind |-> "dialog", parent |-> Body], [kind |-> "close", parent |-> Body] >> }

RunnersIdle ==
    /\ onChange = [r \in Runners |-> "returns"]
    /\ isScanRunning = [r \in Runners |-> FALSE]
    /\ calls = <<>>
    /\ notes = [r \in Runners |-> <<>>]
    /\ clock = 0

AnalyzerIdle ==
    /\ last = <<>>
    /\ prev = <<>>
    /\ ncalls = 0
    /\ filt = <<>>
    /\ within = <<>>

\* a page no analyze(page) has been called on; injections counts the times
\* the bundle has run in the current document context
E2EIdle ==
    /\ page \in [ driver : {"playwright"}, loaded : {FALSE}, injections : {0},
                   navigations : {0} ]
    /\ e2e = <<>>
    /\ injectedPages = FALSE

\* two runners on one document, nothing called yet
Init ==
    /\ doc \in RunnerDocs
    /\ cfg \in [Runners -> {DefaultConfig}]
    /\ acfg = DefaultConfig
    /\ RunnersIdle
    /\ AnalyzerIdle
    /\ E2EIdle

Next ==
    \/ \E r \in Runners, took \in Durations : Run(r, took)
    \/ \E r \in Runners, element \in Nodes(doc), took \in Durations :
           RunOnElement(r, element, took)
    \/ \E i \in DOMAIN calls : TimerFires(i)
    \/ \E ms \in Ticks : Tick(ms)

Spec == Init /\ [][Next]_vars

\* two NodeRunner instances on one document, nothing called yet
InitNode ==
    /\ doc \in RunnerDocs
    /\ cfg = [r \in Runners |-> DefaultConfig]
    /\ acfg = DefaultConfig
    /\ RunnersIdle
    /\ AnalyzerIdle
    /\ E2EIdle

NextNode ==
    \/ \E r \in Runners : AnalyzeHTML(r)
    \/ \E r \in Runners : AnalyzeURL(r)
    \/ \E i \in DOMAIN calls, response \in Responses : FetchSettles(i, response)
    \/ \E i \in DOMAIN calls : TextSettles(i)
    \/ \E r \in Runners : AnalyzeFile(r)
    \/ \E i \in DOMAIN calls, readable \in BOOLEAN : FileSettles(i, readable)

SpecNode == InitNode /\ [][NextNode]_vars

\* two runners on one document, the first with a callback that may throw,
\* nothing called yet
InitCallbacks ==
    /\ doc \in { << [kind |-> "dialog", parent |-> Body] >>,
                  << [kind |-> "quoted", parent |-> Body] >> }
    /\ cfg = [r \in Runners |-> DefaultConfig]
    /\ acfg = DefaultConfig
    /\ onChange \in {[r \in Runners |-> IF r = "A" THEN c ELSE "returns"] :
                       c \in Callbacks}
    /\ isScanRunning = [r \in Runners |-> FALSE]
    /\ calls = <<>>
    /\ notes = [r \in Runners |-> <<>>]
    /\ clock = 0
    /\ AnalyzerIdle
    /\ E2EIdle

SpecCallbacks == InitCallbacks /\ [][Next]_vars

\* one Analyzer on any document, with any config
InitAnalyzer ==
    /\ doc \in Docs
    /\ acfg \in Configs
    /\ cfg = [r \in Runners |-> acfg]
    /\ RunnersIdle
    /\ AnalyzerIdle
    /\ E2EIdle

NextAnalyzer ==
    \/ Analyze
    \/ \E k \in 0..2 : FilterByConfidence(k)
    \/ \E element \in Nodes(doc) : AnalyzeWithin(element)

SpecAnalyzer == InitAnalyzer /\ [][NextAnalyzer]_vars

\* an Analyzer with the default config on a dialog with buttons in and
\* around it
InitDetector ==
    /\ doc \in ButtonDocs
    /\ acfg = DefaultConfig
    /\ cfg = [r \in Runners |-> acfg]
    /\ RunnersIdle
    /\ AnalyzerIdle
    /\ E2EIdle

SpecDetector == InitDetector /\ [][NextAnalyzer]_vars

\* an Analyzer with the default config on dialogs and elements that
\* refer to ids
InitTriggers ==
    /\ doc \in TriggerDocs
    /\ acfg = DefaultConfig
    /\ cfg = [r \in Runners |-> acfg]
    /\ RunnersIdle
    /\ AnalyzerIdle
    /\ E2EIdle

SpecTriggers == InitTriggers /\ [][NextAnalyzer]_vars

\* an Analyzer with the default config on a dialog with overlays and
\* buttons in and around it
InitRules ==
    /\ doc \in RuleDocs
    /\ acfg = DefaultConfig
    /\ cfg = [r \in Runners |-> acfg]
    /\ RunnersIdle
    /\ AnalyzerIdle
    /\ E2EIdle

SpecRules == InitRules /\ [][NextAnalyzer]_vars

\* an Analyzer with the default config on documents with elements the
\* detector or a rule test throws on
InitThrows ==
    /\ doc \in ThrowDocs
    /\ acfg = DefaultConfig
    /\ cfg = [r \in Runners |-> acfg]
    /\ RunnersIdle
    /\ AnalyzerIdle
    /\ E2EIdle

SpecThrows == InitThrows /\ [][NextAnalyzer]_vars

\* an Analyzer with the default config on dialogs among siblings
InitBackdrop ==
    /\ doc \in SiblingDocs
    /\ acfg = DefaultConfig
    /\ cfg = [r \in Runners |-> acfg]
    /\ RunnersIdle
    /\ AnalyzerIdle
    /\ E2EIdle

SpecBackdrop == InitBackdrop /\ [][NextAnalyzer]_vars

\* a page of any driver on one document, no call made yet
InitE2E ==
    /\ doc \in { << [kind |-> "dialog", parent |-> Body] >>,
                  << [kind |-> "quoted", parent |-> Body] >> }
    /\ cfg = [r \in Runners |-> DefaultConfig]
    /\ acfg = DefaultConfig
    /\ RunnersIdle
    /\ AnalyzerIdle
    /\ page \in [ driver : Drivers, loaded : {FALSE}, injections : {0},
                   navigations : {0} ]
    /\ e2e = <<>>
    /\ injectedPages = FALSE

NextE2E ==
    \/ E2EAnalyze(<<>>)
    \/ \E i \in DOMAIN e2e : E2EIsBundleLoaded(i)
    \/ \E i \in DOMAIN e2e : E2EInjectBundle(i)
    \/ \E i \in DOMAIN e2e, took \in {0, MIN_SCAN_DURATION} : E2ERun(i, took)
    \/ \E i \in DOMAIN e2e : E2ESettles(i)
    \/ E2EGoto

SpecE2E == InitE2E /\ [][NextE2E]_vars

\* a Playwright page that stays on one document, no call made yet
InitE2ESelect ==
    /\ doc \in { << [kind |-> "dialog", parent |-> Body] >>,
                  << [kind |-> "quoted", parent |-> Body] >>,
                  << [kind |-> "div", parent |-> Body],
                     [kind |-> "dialog", parent |-> 1],
                     [kind |-> "native", parent |-> Body] >> }
    /\ cfg = [r \in Runners |-> DefaultConfig]
    /\ acfg = DefaultConfig
    /\ RunnersIdle
    /\ AnalyzerIdle
    /\ E2EIdle

\* calls with and without a selector, the page not navigated
NextE2ESelect ==
    \/ \E selector \in E2ESelectors : E2EAnalyze(selector)
    \/ \E i \in DOMAIN e2e : E2EIsBundleLoaded(i)
    \/ \E i \in DOMAIN e2e : E2EInjectBundle(i)
    \/ \E i \in DOMAIN e2e, took \in {0, MIN_SCAN_DURATION} : E2ERun(i, took)
    \/ \E i \in DOMAIN e2e : E2ESettles(i)

SpecE2ESelect == InitE2ESelect /\ [][NextE2ESelect]_vars


---------------------------------------------------------------------------
(* Properties of the scan sessions, checked under Spec.                    *)

\* the empty result, spelled out
AllZeroEmpty ==
    [ summary |-> [patternsFound |-> 0, errors |-> 0, warnings |-> 0, info |-> 0],
      patterns |-> <<>> ]

\* what a runner can be asked on a document: <<document, config, target>>,
\* the target being NoNode for run()
Asked ==
    UNION { { <<ds, c, t>> : c \in Configs, t \in {NoNode} \cup Nodes(ds) } :
            ds \in RunnerDocs }

\* whether the analysis asked for throws, evaluated once for each
ThrowsWhenAsked ==
    [a \in Asked |-> analyzeThrows(Dom(a[1]), a[2])] @@ <<>>

\* what the analysis asked for yields when nothing stops it, evaluated once
\* for each
ResultWhenAsked ==
    [a \in Asked |->
        IF analyzeThrows(Dom(a[1]), a[2]) THEN emptyResult
        ELSE IF a[3] = NoNode THEN analyze(Dom(a[1]), a[2])
        ELSE runOnElementResult(Dom(a[1]), a[2], a[3])] @@ <<>>

\* the analysis of the document by the runner of call c throws
Throws(c) == ThrowsWhenAsked[<<doc, cfg[c.runner], c.target>>]

\* what the analysis of call c yields when nothing stops it
FullResult(c) == ResultWhenAsked[<<doc, cfg[c.runner], c.target>>]

\* C1: a run() called on a runner while the promise of an earlier run() of
\* that runner is unresolved resolves to the empty result.
C1_SecondRunEmpty ==
    \A i \in DOMAIN calls :
        (calls[i].op = "run" /\ calls[i].sameInFlight) =>
            /\ calls[i].pc = "done"
            /\ calls[i].outcome # "rejected"
            /\ calls[i].result = AllZeroEmpty

\* a second run() was issued while the first waited, on a document whose
\* scan finds patterns
C1_Witness ==
    \E i \in DOMAIN calls :
        /\ calls[i].op = "run" /\ calls[i].sameInFlight
        /\ calls[i].pc = "done"
        /\ ~Throws(calls[i])
        /\ FullResult(calls[i]).patterns # <<>>

\* C2: while a runner is busy, every run() and runOnElement() on it returns
\* the empty result at once, does not throw, starts no analysis and is
\* never executed later.
C2_BusyCallsRejected ==
    \A i \in DOMAIN calls :
        calls[i].sameInFlight =>
            /\ calls[i].pc = "done"
            /\ calls[i].outcome # "rejected"
            /\ calls[i].result = AllZeroEmpty
            /\ calls[i].settled = calls[i].start
            /\ calls[i].analyses = 0

\* a runOnElement() was turned away, and the scan it ran into has since
\* ended without the rejected call being taken up
C2_Witness ==
    \E i \in DOMAIN calls : \E j \in 1..(i - 1) :
        /\ calls[i].op = "runOnElement" /\ calls[i].sameInFlight
        /\ calls[j].runner = calls[i].runner
        /\ calls[j].pc = "done" /\ calls[j].outcome = "ok"
        /\ calls[j].settled > calls[i].start
        /\ FullResult(calls[i]).patterns # <<>>

\* C3 as stated: every call tells the callback true, then false.
C3_EveryCallNotifiesTwice ==
    \A i \in DOMAIN calls :
        calls[i].pc = "done" => calls[i].fired = <<TRUE, FALSE>>

\* C3: every accepted run() and runOnElement() tells the callback true
\* before the analysis and false after it, also when the analysis throws;
\* a call turned away because the runner is busy tells it nothing.
C3_AcceptedCallsNotifyTwice ==
    \A i \in DOMAIN calls :
        /\ (~calls[i].sameInFlight /\ calls[i].pc = "done") =>
               calls[i].fired = <<TRUE, FALSE>>
        /\ (~calls[i].sameInFlight /\ calls[i].pc = "waiting") =>
               calls[i].fired = <<TRUE>>
        /\ calls[i].sameInFlight => calls[i].fired = <<>>

\* an accepted call whose analysis threw has notified twice
C3_Witness ==
    \E i \in DOMAIN calls :
        /\ ~calls[i].sameInFlight
        /\ Throws(calls[i])
        /\ calls[i].analyses = 1
        /\ calls[i].fired = <<TRUE, FALSE>>

\* C4: a run() whose analysis throws does not reject: it resolves to the
\* empty result, the value of a busy call and of a scan that finds nothing.
C4_RunCatchesErrors ==
    \A i \in DOMAIN calls :
        (calls[i].op = "run" /\ ~calls[i].sameInFlight /\ Throws(calls[i])) =>
            /\ calls[i].pc = "done"
            /\ calls[i].outcome # "rejected"
            /\ calls[i].result = AllZeroEmpty
            /\ calls[i].result = analyze(<<>>, cfg[calls[i].runner])

\* a run() was accepted on a document whose analysis throws
C4_Witness ==
    \E i \in DOMAIN calls :
        /\ calls[i].op = "run" /\ ~calls[i].sameInFlight
        /\ calls[i].analyses = 1
        /\ Throws(calls[i])
        /\ calls[i].pc = "done"

\* C5 as stated: no run() returns before 500 ms have passed since the call,
\* and runOnElement() never waits.
C5_RunNeverBeforeFloor ==
    \A i \in DOMAIN calls :
        /\ (calls[i].op = "run" /\ calls[i].pc = "done") =>
               calls[i].settled - calls[i].start >= MIN_SCAN_DURATION
        /\ calls[i].op = "runOnElement" =>
               calls[i].pc = "done" /\ calls[i].timer = Never

\* C5, what the code keeps of it: an accepted run() whose analysis does not
\* throw never returns before 500 ms have passed since the call; a run()
\* turned away as busy returns at once and one whose analysis throws
\* returns when the analysis ends; runOnElement() never waits.
C5_CompletedRunKeepsFloor ==
    \A i \in DOMAIN calls :
        /\ (calls[i].op = "run" /\ calls[i].pc = "done" /\ ~calls[i].sameInFlight
              /\ ~Throws(calls[i])) =>
               calls[i].settled - calls[i].start >= MIN_SCAN_DURATION
        /\ (calls[i].op = "run" /\ calls[i].sameInFlight) =>
               calls[i].settled = calls[i].start
        /\ (calls[i].op = "run" /\ ~calls[i].sameInFlight /\ Throws(calls[i])) =>
               calls[i].settled = calls[i].start + calls[i].took
        /\ calls[i].op = "runOnElement" =>
               /\ calls[i].pc = "done" /\ calls[i].timer = Never
               /\ calls[i].settled = calls[i].start + calls[i].took

\* an accepted run() whose analysis threw has returned, and told the
\* callback false, before the floor had passed
C5_Witness ==
    \E i \in DOMAIN calls :
        /\ calls[i].op = "run" /\ ~calls[i].sameInFlight
        /\ Throws(calls[i])
        /\ calls[i].pc = "done" /\ calls[i].outcome = "caught"
        /\ calls[i].fired = <<TRUE, FALSE>>
        /\ calls[i].settled - calls[i].start < MIN_SCAN_DURATION

\* C6: a call on a runner that is idle is accepted and gets its full
\* result while a run() of another runner is in flight.
C6_FlagPerInstance ==
    \A i \in DOMAIN calls :
        (calls[i].otherInFlight /\ ~calls[i].sameInFlight) =>
            /\ calls[i].outcome # "busy"
            /\ calls[i].analyses = 1
            /\ ~Throws(calls[i]) => calls[i].result = FullResult(calls[i])

\* a call was accepted next to a scan in flight on the other runner, and
\* its result holds a pattern
C6_Witness ==
    \E i \in DOMAIN calls :
        /\ calls[i].otherInFlight /\ ~calls[i].sameInFlight
        /\ calls[i].result.patterns # <<>>
        /\ calls[i].result # AllZeroEmpty

\* C10: the result of a call depends on the document and the config only:
\* two settled calls that ask the same of runners with equal config, each
\* made while its runner had no call in flight, get identical answers,
\* whatever was called and completed before them.
C10_ResultDependsOnInputOnly ==
    \A i \in DOMAIN calls : \A j \in DOMAIN calls :
        ( /\ i < j
          /\ calls[i].pc = "done" /\ calls[j].pc = "done"
          /\ ~calls[i].sameInFlight /\ ~calls[j].sameInFlight
          /\ calls[i].op = calls[j].op /\ calls[i].target = calls[j].target
          /\ cfg[calls[i].runner] = cfg[calls[j].runner] ) =>
            /\ calls[j].outcome = calls[i].outcome
            /\ calls[j].result = calls[i].result
            /\ calls[j].outcome = "ok" => calls[j].result = FullResult(calls[j])

\* a run() made after an earlier run() of the same runner had settled got
\* the same patterns again
C10_Witness ==
    \E i \in DOMAIN calls : \E j \in DOMAIN calls :
        /\ i < j
        /\ calls[i].runner = calls[j].runner
        /\ calls[i].op = "run" /\ calls[j].op = "run"
        /\ calls[i].pc = "done" /\ calls[j].pc = "done"
        /\ calls[j].start >= calls[i].settled
        /\ calls[j].outcome = "ok"
        /\ calls[j].result.patterns # <<>>
        /\ calls[j].result = calls[i].result

---------------------------------------------------------------------------
(* Properties of the analysis, checked under SpecAnalyzer.                 *)

\* the element t and the elements below it
RECURSIVE Subtree(_, _)
Subtree(d, t) ==
    {t} \cup UNION { Subtree(d, c) : c \in {n \in DOMAIN d : d[n].parent = t} }

\* C7: runOnElement(target) returns the matches of the full analysis whose
\* anchor is the target or lies below it, in their order; the triggers,
\* close buttons and backdrop of a match play no part.
C7_FilterByAnchorOnly ==
    within # <<>> =>
        LET d == Dom(doc)
            full == analyze(d, acfg).patterns
            below == Subtree(d, within[1].element)
        IN within[1].result.patterns =
               SelectSeq(full, LAMBDA pattern : pattern.element \in below)

\* a match was kept whose trigger lies outside the target
C7_Witness ==
    /\ within # <<>>
    /\ \E i \in DOMAIN within[1].result.patterns :
          LET pattern == within[1].result.patterns[i]
          IN /\ pattern.element \in Subtree(Dom(doc), within[1].element)
             /\ \E t \in Range(pattern.relatedElements.triggers) :
                   t \notin Subtree(Dom(doc), within[1].element)

\* the issues of one severity in a sequence of matches, as places
IssuePlaces(patterns, severity) ==
    { place \in UNION { { <<i, j>> : j \in DOMAIN patterns[i].issues } :
                        i \in DOMAIN patterns } :
        patterns[place[1]].issues[place[2]].severity = severity }

\* the summary agrees with the patterns it comes with
SummaryMatches(result) ==
    /\ result.summary.patternsFound = Len(result.patterns)
    /\ result.summary.errors = Cardinality(IssuePlaces(result.patterns, "error"))
    /\ result.summary.warnings = Cardinality(IssuePlaces(result.patterns, "warning"))
    /\ result.summary.info = Cardinality(IssuePlaces(result.patterns, "info"))

\* C8: in every result, the empty one included, patternsFound is the
\* number of patterns and errors, warnings and info count the issues of
\* that severity over the returned patterns; for runOnElement these are
\* the filtered patterns.
C8_SummaryIsReduction ==
    /\ SummaryMatches(emptyResult)
    /\ last # <<>> => SummaryMatches(last[1].result)
    /\ within # <<>> => SummaryMatches(within[1].result)

\* runOnElement dropped a match and counted errors and warnings of the
\* ones it kept
C8_Witness ==
    /\ within # <<>>
    /\ within[1].result.summary.errors > 0
    /\ within[1].result.summary.warnings > 0
    /\ Len(within[1].result.patterns) < Len(analyze(Dom(doc), acfg).patterns)

\* the rank of a confidence level
Rank(confidence) ==
    CASE confidence = "low" -> 1
      [] confidence = "medium" -> 2
      [] confidence = "high" -> 3

\* the matches analyze() returns for the document when minConfidence is m
ReturnedWith(m) ==
    Range(analyze(Dom(doc), [acfg EXCEPT !.minConfidence = <<m>>]).patterns)

\* C9: the matches returned with minConfidence high are among those
\* returned with medium, which are among those returned with low; a match
\* is returned exactly when its rank is at least the rank of minConfidence.
C9_ConfidenceMonotone ==
    /\ (last # <<>> /\ prev = <<>> /\ ~last[1].threw) =>
          /\ ReturnedWith("high") \subseteq ReturnedWith("medium")
          /\ ReturnedWith("medium") \subseteq ReturnedWith("low")
          /\ Range(last[1].result.patterns) =
                 ReturnedWith(AnalyzerConfig(acfg).minConfidence)
    /\ last # <<>> =>
          \A pattern \in Range(last[1].result.patterns) :
              Rank(pattern.confidence) >= Rank(AnalyzerConfig(acfg).minConfidence)
    /\ filt # <<>> =>
          filt[1].output =
              SelectSeq(filt[1].input, LAMBDA pattern :
                  Rank(pattern.confidence) >= Rank(AnalyzerConfig(acfg).minConfidence))

\* with minConfidence medium, a match below it was dropped and one at or
\* above it was kept
C9_Witness ==
    /\ filt # <<>>
    /\ AnalyzerConfig(acfg).minConfidence = "medium"
    /\ \E pattern \in Range(filt[1].input) :
          pattern.confidence = "low" /\ pattern \notin Range(filt[1].output)
    /\ \E pattern \in Range(filt[1].output) : pattern.confidence = "medium"

\* the results an analysis has returned in this state: the one of the last
\* analyze() and the one of runOnElement()
Returned ==
    {last[i].result : i \in {j \in DOMAIN last : ~last[j].threw}}
        \cup {within[i].result : i \in DOMAIN within}

\* the issues of all matches of a result
IssuesOf(result) ==
    UNION { Range(result.patterns[i].issues) : i \in DOMAIN result.patterns }

\* the suggestion the rule with that id declares
SuggestionOfRule(ruleId) ==
    LET i == CHOOSE j \in DOMAIN DIALOG_RULES : DIALOG_RULES[j].id = ruleId
    IN DIALOG_RULES[i].suggestion

\* C11: with includeSuggestions false no issue of a returned match has a
\* suggestion field; with includeSuggestions absent or true every issue has
\* the suggestion of its rule.
C11_SuggestionStripping ==
    \A result \in Returned : \A issue \in IssuesOf(result) :
        IF acfg.includeSuggestions = <<FALSE>>
        THEN "suggestion" \notin DOMAIN issue
        ELSE /\ "suggestion" \in DOMAIN issue
             /\ issue.suggestion = SuggestionOfRule(issue.ruleId)

\* with includeSuggestions false, runOnElement() returned a match with an
\* issue, and the issue has its other fields
C11_Witness ==
    /\ acfg.includeSuggestions = <<FALSE>>
    /\ within # <<>>
    /\ \E issue \in IssuesOf(within[1].result) :
          DOMAIN issue = {"severity", "message", "ruleId", "element"}

\* the config asks for dialog detection: no list of patterns, an empty one,
\* or one that names dialog
DialogWanted ==
    \/ acfg.patterns = <<>>
    \/ acfg.patterns[1] = <<>>
    \/ \E i \in DOMAIN acfg.patterns[1] : acfg.patterns[1][i] = "dialog"

\* C12: analyze() runs the dialog detector when config.patterns is absent,
\* empty or contains dialog; otherwise it returns the empty result and the
\* detector does not run, so a document the detector throws on does no harm.
C12_PatternTypeFilter ==
    last # <<>> =>
        IF DialogWanted
        THEN /\ last[1].threw <=> analyzeDialogsThrows(Dom(doc))
             /\ ~last[1].threw =>
                    Len(last[1].result.patterns) = Len(detectAll(Dom(doc)))
        ELSE /\ ~last[1].threw
             /\ last[1].result = AllZeroEmpty

\* analyze() with patterns = ['tabs'] returned the empty result on a
\* document with a dialog
C12_Witness ==
    /\ last # <<>>
    /\ acfg.patterns = << <<"tabs">> >>
    /\ ExplicitDialogElements(Dom(doc)) # <<>>
    /\ last[1].result = AllZeroEmpty

\* the ids of the six rules, in the order of their declaration
RuleOrder ==
    << "dialog-accessible-name", "dialog-close-button", "dialog-initially-hidden",
       "dialog-focusable-content", "dialog-aria-modal", "dialog-close-button-label" >>

\* the rule ids of the issues of a match, in their order
IssueRuleIds(pattern) == [i \in DOMAIN pattern.issues |-> pattern.issues[i].ruleId]

\* C13: the issues of a match are one issue for each rule whose test is
\* false and none for a rule whose test is true, in the order the rules are
\* declared; a failing rule does not keep a later one from being evaluated.
C13_EveryRuleEvaluated ==
    \A result \in Returned : \A i \in DOMAIN result.patterns :
        LET pattern == result.patterns[i]
        IN /\ IssueRuleIds(pattern) =
                  SelectSeq(RuleOrder, LAMBDA id : ~RuleTest(id, Dom(doc), pattern))
           /\ \A k \in DOMAIN pattern.issues :
                  /\ pattern.issues[k].element = pattern.element
                  /\ \E r \in DOMAIN DIALOG_RULES :
                        /\ DIALOG_RULES[r].id = pattern.issues[k].ruleId
                        /\ DIALOG_RULES[r].severity = pattern.issues[k].severity
                        /\ DIALOG_RULES[r].message = pattern.issues[k].message

\* a match failed the second and the fourth rule and passed the third
C13_Witness ==
    /\ last # <<>>
    /\ \E i \in DOMAIN last[1].result.patterns :
          IssueRuleIds(last[1].result.patterns[i]) =
              <<"dialog-close-button", "dialog-focusable-content">>

\* the six conditions on a dialog under which no rule fails
WellFormedDialog(d, element) ==
    /\ hasAccessibleName(d, element)
    /\ findCloseButtons(d, element) # <<>>
    /\ ~isVisible(d[element])
    /\ getFocusableElements(d, element) # <<>>
    /\ findBackdrop(d, element) = NoNode \/ d[element].ariaModal = s_true
    /\ \A button \in Range(findCloseButtons(d, element)) : hasAccessibleName(d, button)

\* C14: a dialog match has no issues exactly when its anchor has a name,
\* it has a close button, the anchor is not visible, it has a focusable
\* descendant, it has no backdrop or has aria-modal="true", and each of its
\* close buttons has a name.
C14_ZeroIssuesIffWellFormed ==
    \A result \in Returned : \A i \in DOMAIN result.patterns :
        result.patterns[i].issues = <<>>
            <=> WellFormedDialog(Dom(doc), result.patterns[i].element)

\* analyze() returned a match without issues
C14_Witness ==
    /\ last # <<>>
    /\ \E i \in DOMAIN last[1].result.patterns :
          /\ last[1].result.patterns[i].issues = <<>>
          /\ last[1].result.patterns[i].confidence = "high"

---------------------------------------------------------------------------
(* Properties of the e2e entry point, checked under SpecE2E.               *)

\* C15: however many analyze(page) calls are made on a page, concurrent
\* ones included, the bundle runs at most once in one document context of
\* the page.
C15_InjectedAtMostOnce == page.injections <= 1

\* C15, what the code keeps of it: when no call is made while another has
\* not returned, the bundle runs at most once in one document context.
C15_SequentialCallsInjectOnce ==
    (\A i \in DOMAIN e2e : ~e2e[i].overlaps) => page.injections <= 1

\* two calls made without awaiting the first have both returned, both
\* injected the bundle, and the page was not navigated
C15_Witness ==
    /\ page.navigations = 0
    /\ page.injections = 2
    /\ Len(e2e) >= 2
    /\ \A i \in {1, 2} : e2e[i].pc = "done" /\ e2e[i].injected
    /\ e2e[2].overlaps

\* a second call made after the first had returned found the bundle and
\* did not inject it
C15_SequentialWitness ==
    /\ page.navigations = 0
    /\ Len(e2e) >= 2
    /\ e2e[1].injected /\ ~e2e[2].overlaps
    /\ e2e[2].pc = "done" /\ ~e2e[2].injected /\ e2e[2].outcome = "ok"

---------------------------------------------------------------------------
(* Further properties of the scan sessions, checked under Spec.            *)

\* the calls of runner r that were accepted
Accepted(cs, r) == {i \in DOMAIN cs : cs[i].runner = r /\ cs[i].outcome # "busy"}

\* in every state: at most one accepted call of a runner is in flight, the
\* flag is up exactly while one is, and what the callback has been told
\* alternates true, false, ... from true
C16_OneScanInFlight ==
    \A r \in Runners :
        /\ Cardinality(InFlight(calls, r)) <= 1
        /\ isScanRunning[r] <=> InFlight(calls, r) # {}
        /\ \A k \in DOMAIN notes[r] : notes[r][k] <=> (k % 2 = 1)
        /\ isScanRunning[r] <=> (Len(notes[r]) % 2 = 1)

\* in every step: the flag of a runner goes up only with a newly accepted
\* call of that runner, and comes down only with the end of the call that
\* was in flight
C16_LegalTransition ==
    \A r \in Runners :
        /\ (~isScanRunning[r] /\ isScanRunning'[r]) =>
               /\ Len(calls') = Len(calls) + 1
               /\ Len(calls') \in Accepted(calls', r)
               /\ InFlight(calls', r) = {Len(calls')}
        /\ (isScanRunning[r] /\ ~isScanRunning'[r]) =>
               /\ InFlight(calls', r) = {}
               /\ \E i \in InFlight(calls, r) : calls'[i].pc = "done"

\* C16: on each runner the busy flag moves from idle to scanning only when
\* a call is accepted and back only when that call ends, at most one
\* accepted scan is in flight, and the notifications alternate true, false
\* starting with true.
C16_SingleFlightMachine == []C16_OneScanInFlight /\ [][C16_LegalTransition]_vars

\* a runner has ended one scan and is in its second
C16_Witness ==
    \E r \in Runners :
        /\ notes[r] = <<TRUE, FALSE, TRUE>>
        /\ isScanRunning[r]
        /\ Cardinality(Accepted(calls, r)) = 2

---------------------------------------------------------------------------
(* Properties of the dialog detector, checked under SpecAnalyzer.          *)

\* the matches the last analyze() returned; none when it threw or has not
\* been called
Matches == IF last = <<>> \/ last[1].threw THEN <<>> ELSE last[1].result.patterns

\* C17 as stated: the matches are in document order of their anchors.
C17_DocumentOrder ==
    \A i \in DOMAIN Matches : \A j \in DOMAIN Matches :
        i < j => Matches[i].element <= Matches[j].element

\* C17: the matches of one pass are in document order of their anchors,
\* and the matches of the explicit-role pass come before those of the
\* native-element pass wherever their anchors are in the document.
C17_DocumentOrderWithinPass ==
    \A i \in DOMAIN Matches : \A j \in DOMAIN Matches :
        i < j =>
            \/ /\ Matches[i].detectionMethod = Matches[j].detectionMethod
               /\ Matches[i].element < Matches[j].element
            \/ /\ Matches[i].detectionMethod = "explicit-role"
               /\ Matches[j].detectionMethod = "native-element"

\* a native dialog element precedes an element with a dialog role in the
\* document, and its match comes after
C17_Witness ==
    \E i \in DOMAIN Matches : \E j \in DOMAIN Matches :
        /\ i < j
        /\ Matches[i].detectionMethod = "explicit-role"
        /\ Matches[j].detectionMethod = "native-element"
        /\ Matches[j].element < Matches[i].element

\* the elements with an explicit dialog role, and the dialog elements, in
\* document order
WithDialogRole ==
    SelectSeq([n \in 1..Len(doc) |-> n],
              LAMBDA n : Dom(doc)[n].role \in {s_dialog, s_alertdialog})

OfDialogTag ==
    SelectSeq([n \in 1..Len(doc) |-> n], LAMBDA n : Dom(doc)[n].tag = "dialog")

\* the anchor and the detection method of each match, in order
AnchorsAndMethods ==
    [i \in DOMAIN Matches |-> <<Matches[i].element, Matches[i].detectionMethod>>]

\* the number of issues of all matches
RECURSIVE IssueTotal(_)
IssueTotal(patterns) ==
    IF patterns = <<>> THEN 0
    ELSE Len(Head(patterns).issues) + IssueTotal(Tail(patterns))

\* C18: the matches are those of the explicit-role pass followed by those
\* of the native-element pass, all of confidence high; a dialog element
\* that also has a dialog role is matched by both passes, and both matches
\* count in patternsFound and in the issue counts.
C18_PassesConcatenated ==
    (last # <<>> /\ ~last[1].threw /\ DialogWanted) =>
        /\ AnchorsAndMethods =
               [i \in DOMAIN WithDialogRole |-> <<WithDialogRole[i], "explicit-role">>]
               \o [i \in DOMAIN OfDialogTag |-> <<OfDialogTag[i], "native-element">>]
        /\ \A i \in DOMAIN Matches : Matches[i].confidence = "high"
        /\ last[1].result.summary.patternsFound =
               Len(WithDialogRole) + Len(OfDialogTag)
        /\ last[1].result.summary.errors + last[1].result.summary.warnings
               + last[1].result.summary.info = IssueTotal(Matches)

\* a dialog element with a dialog role was matched twice, and the issues
\* of both matches are in the summary
C18_Witness ==
    \E i \in DOMAIN Matches : \E j \in DOMAIN Matches :
        /\ i < j
        /\ Matches[i].element = Matches[j].element
        /\ Matches[i].detectionMethod = "explicit-role"
        /\ Matches[j].detectionMethod = "native-element"
        /\ Matches[i].issues # <<>>
        /\ Matches[i].issues = Matches[j].issues
        /\ last[1].result.summary.patternsFound = Len(Matches)
        /\ last[1].result.summary.errors + last[1].result.summary.warnings
               + last[1].result.summary.info >= 2 * Len(Matches[i].issues)

\* the elements the detector takes for dialogs, by either pass
DialogElements == Range(WithDialogRole) \cup Range(OfDialogTag)

\* C19: a dialog whose id makes the trigger lookup malformed does not abort
\* the detection: analyze() returns, with a match for every dialog of the
\* document.
C19_MalformedIdDoesNotAbort ==
    (last # <<>> /\ DialogWanted) =>
        /\ ~last[1].threw
        /\ Len(last[1].result.patterns) = Len(WithDialogRole) + Len(OfDialogTag)

\* C19, what the code does: the analysis throws exactly when a dialog of
\* the document has an id with a double quote in it, and returns a match
\* for every dialog otherwise.
C19_QuotedIdAborts ==
    (last # <<>> /\ DialogWanted) =>
        /\ last[1].threw <=>
               \E n \in DialogElements : "\"" \in Range(Dom(doc)[n].id)
        /\ ~last[1].threw =>
               Len(last[1].result.patterns) = Len(WithDialogRole) + Len(OfDialogTag)

\* analyze() threw on a document with two dialogs, one of them with a
\* double quote in its id, the other with a plain id
C19_Witness ==
    /\ last # <<>> /\ last[1].threw
    /\ \E n \in DialogElements : \E m \in DialogElements :
          /\ "\"" \in Range(Dom(doc)[n].id)
          /\ Dom(doc)[m].id = <<"d">>

\* the dismissal words of the specification
DismissWords == {s_close, s_dismiss, s_cancel}

\* the button and role="button" elements below the anchor of a match
ButtonsBelow(anchor) ==
    {b \in Nodes(doc) :
        /\ b # anchor /\ Contains(Dom(doc), anchor, b)
        /\ Dom(doc)[b].tag = "button" \/ Dom(doc)[b].role = s_button}

\* a word of the set is in the lower-cased string
HasWord(s, words) == \E w \in words : Includes(ToLowerCase(s), w)

\* C20 as stated: the close buttons of a match are the buttons below its
\* anchor with one of close, dismiss, cancel in their text, aria-label or
\* class name, or with a data-dismiss or data-close attribute.
C20_CloseButtonVocabulary ==
    \A i \in DOMAIN Matches :
        Range(Matches[i].relatedElements.closeButtons) =
            {b \in ButtonsBelow(Matches[i].element) :
                \/ HasWord(TextContent(Dom(doc), b), DismissWords)
                \/ HasWord(Dom(doc)[b].ariaLabel, DismissWords)
                \/ HasWord(Dom(doc)[b].className, DismissWords)
                \/ Dom(doc)[b].dataDismiss
                \/ Dom(doc)[b].dataClose}

\* C20, what the code does: cancel counts in the text only, dismiss in the
\* text and the aria-label only; close counts in all three.
C20_CloseButtonVocabularyByField ==
    \A i \in DOMAIN Matches :
        Range(Matches[i].relatedElements.closeButtons) =
            {b \in ButtonsBelow(Matches[i].element) :
                \/ HasWord(TextContent(Dom(doc), b), DismissWords)
                \/ HasWord(Dom(doc)[b].ariaLabel, {s_close, s_dismiss})
                \/ HasWord(Dom(doc)[b].className, {s_close})
                \/ Dom(doc)[b].dataDismiss
                \/ Dom(doc)[b].dataClose}

\* a dialog was analyzed that has below it a button labelled Cancel, which
\* is not among its close buttons, and one with the text Cancel, which is
C20_Witness ==
    \E i \in DOMAIN Matches :
        \E b \in ButtonsBelow(Matches[i].element) :
            \E c \in ButtonsBelow(Matches[i].element) :
                /\ doc[b].kind = "labelCancel"
                /\ b \notin Range(Matches[i].relatedElements.closeButtons)
                /\ doc[c].kind = "textCancel"
                /\ c \in Range(Matches[i].relatedElements.closeButtons)

\* the siblings of an element that have backdrop, overlay or mask in their
\* lower-cased class name
BackdropSiblings(anchor) ==
    {n \in Nodes(doc) :
        /\ n # anchor
        /\ doc[n].parent = doc[anchor].parent
        /\ \E w \in {s_backdrop, s_overlay, s_mask} :
               Includes(ToLowerCase(Dom(doc)[n].className), w)}

\* the number of the place of an element among the children of its parent
PlaceAmongSiblings(n) ==
    Cardinality({m \in Nodes(doc) : m <= n /\ doc[m].parent = doc[n].parent})

\* how many places apart two siblings are
SiblingDistance(a, b) ==
    IF PlaceAmongSiblings(a) >= PlaceAmongSiblings(b)
    THEN PlaceAmongSiblings(a) - PlaceAmongSiblings(b)
    ELSE PlaceAmongSiblings(b) - PlaceAmongSiblings(a)

\* metadata.hasBackdrop says whether relatedElements.backdrop is an element
HasBackdropIffBackdrop(match) ==
    match.metadata.hasBackdrop <=> match.relatedElements.backdrop # NoNode

\* C21 as stated: the backdrop of a match is null when no sibling of the
\* anchor qualifies, and otherwise a qualifying sibling no other qualifying
\* sibling is nearer to the anchor than; hasBackdrop says whether there is one.
C21_NearestSiblingBackdrop ==
    \A i \in DOMAIN Matches :
        LET anchor == Matches[i].element
            backdrop == Matches[i].relatedElements.backdrop
        IN /\ HasBackdropIffBackdrop(Matches[i])
           /\ IF BackdropSiblings(anchor) = {} THEN backdrop = NoNode
              ELSE /\ backdrop \in BackdropSiblings(anchor)
                   /\ \A s \in BackdropSiblings(anchor) :
                          SiblingDistance(anchor, backdrop)
                              <= SiblingDistance(anchor, s)

\* C21, what the code does: the backdrop is the first qualifying sibling
\* in document order, however far from the anchor it is.
C21_FirstSiblingBackdrop ==
    \A i \in DOMAIN Matches :
        LET anchor == Matches[i].element
            backdrop == Matches[i].relatedElements.backdrop
        IN /\ HasBackdropIffBackdrop(Matches[i])
           /\ IF BackdropSiblings(anchor) = {} THEN backdrop = NoNode
              ELSE /\ backdrop \in BackdropSiblings(anchor)
                   /\ \A s \in BackdropSiblings(anchor) : backdrop <= s

\* a dialog was analyzed that has a qualifying sibling right after it and
\* another two places before it, and the one before it is its backdrop
C21_Witness ==
    \E i \in DOMAIN Matches :
        LET anchor == Matches[i].element
            backdrop == Matches[i].relatedElements.backdrop
        IN /\ backdrop \in BackdropSiblings(anchor)
           /\ backdrop < anchor
           /\ SiblingDistance(anchor, backdrop) = 2
           /\ \E s \in BackdropSiblings(anchor) :
                  s > anchor /\ SiblingDistance(anchor, s) = 1

\* the elements that refer to an id through aria-controls or data-target
RefersTo(id) ==
    {n \in Nodes(doc) :
        \/ Dom(doc)[n].ariaControls = id
        \/ Dom(doc)[n].dataTarget = id
        \/ Dom(doc)[n].dataTarget = <<"#">> \o id}

\* the triggers of a match are the elements that refer to the id of its
\* anchor, each once, and none when the anchor has no id
TriggersByIdEquality(match) ==
    LET id == Dom(doc)[match.element].id
        triggers == match.relatedElements.triggers
    IN /\ Len(triggers) = Cardinality(Range(triggers))
       /\ Range(triggers) = IF id = <<>> THEN {} ELSE RefersTo(id)

\* C22 as stated: the triggers of a dialog are the elements whose
\* aria-controls equals its id or whose data-target equals the id or '#'
\* and the id, each listed once; a dialog without an id has no triggers.
C22_TriggersUnionOnce ==
    \A i \in DOMAIN Matches : TriggersByIdEquality(Matches[i])

\* C22, what the code does: the same, for the dialogs whose id has no
\* backslash in it.
C22_TriggersUnionOnceForPlainIds ==
    \A i \in DOMAIN Matches :
        "\\" \notin Range(Dom(doc)[Matches[i].element].id)
            => TriggersByIdEquality(Matches[i])

\* a dialog with an id was analyzed that has two triggers, one of them
\* matching through both attributes
C22_Witness ==
    \E i \in DOMAIN Matches :
        /\ Dom(doc)[Matches[i].element].id = <<"d">>
        /\ Len(Matches[i].relatedElements.triggers) = 2
        /\ \E n \in Range(Matches[i].relatedElements.triggers) :
               doc[n].kind = "byBoth"

\* the number of issues of a match that a rule has reported
IssuesOfRule(match, ruleId) ==
    Cardinality({k \in DOMAIN match.issues : match.issues[k].ruleId = ruleId})

\* the close buttons of a match that have no accessible name
Unnamed(match) ==
    {b \in Range(match.relatedElements.closeButtons) :
        ~hasAccessibleName(Dom(doc), b)}

C23_NotApplicableWitness ==
    \E i \in DOMAIN Matches :
        /\ BackdropSiblings(Matches[i].element) = {}
        /\ Dom(doc)[Matches[i].element].ariaModal = <<>>
        /\ Matches[i].relatedElements.closeButtons = <<>>
        /\ IssuesOfRule(Matches[i], "dialog-aria-modal") = 0
        /\ IssuesOfRule(Matches[i], "dialog-close-button-label") = 0

\* the detector throws on a dialog: its id has a double quote in it
DetectorFailsOn(n) == "\"" \in Range(Dom(doc)[n].id)

\* a rule test throws on a dialog: it has below it an input that is a
\* close button and whose id has a double quote in it
RuleTestFailsOn(n) ==
    \E b \in ButtonsBelow(n) :
        /\ Dom(doc)[b].tag = "input" /\ Dom(doc)[b].dataClose
        /\ "\"" \in Range(Dom(doc)[b].id)

\* the dialogs of the document that are detected and validated without
\* an exception
SoundDialogs ==
    {n \in DialogElements : ~DetectorFailsOn(n) /\ ~RuleTestFailsOn(n)}

\* C24: when the detector or a rule test throws on one dialog of the
\* document, analyze() throws and returns nothing, whatever dialogs were
\* detected and validated before; it returns when none throws.
C24_ExceptionsPropagate ==
    last # <<>> =>
        /\ last[1].threw <=>
               \E n \in DialogElements : DetectorFailsOn(n) \/ RuleTestFailsOn(n)
        /\ last[1].threw => Matches = <<>> /\ last[1].result = emptyResult
        /\ ~last[1].threw => Matches # <<>> \/ DialogElements = {}

\* analyze() threw in a rule test on the second dialog of a document whose
\* first dialog is detected and validated without an exception
C24_Witness ==
    /\ last # <<>> /\ last[1].threw
    /\ \E n \in SoundDialogs : \E m \in DialogElements :
           n < m /\ RuleTestFailsOn(m) /\ ~DetectorFailsOn(m)

\* analyze() threw in the detector on the second dialog of a document whose
\* first dialog is detected without an exception
C24_DetectorWitness ==
    /\ last # <<>> /\ last[1].threw
    /\ \E n \in SoundDialogs : \E m \in DialogElements : n < m /\ DetectorFailsOn(m)

\* the first call made on the runner of call i after it, 0 when there is none
NextOnRunner(i) ==
    LET later == {j \in DOMAIN calls : j > i /\ calls[j].runner = calls[i].runner}
    IN IF later = {} THEN 0 ELSE CHOOSE j \in later : \A k \in later : j <= k

\* C25: an accepted runOnElement() whose analysis throws rejects, having
\* told the callback true and then false; the busy flag is false after it
\* and the next call on the runner is accepted.
C25_RunOnElementRejectsAndResets ==
    \A i \in DOMAIN calls :
        (calls[i].op = "runOnElement" /\ calls[i].outcome # "busy" /\ Throws(calls[i])) =>
            /\ calls[i].pc = "done"
            /\ calls[i].outcome = "rejected"
            /\ calls[i].fired = <<TRUE, FALSE>>
            /\ i = Len(calls) => ~isScanRunning[calls[i].runner]
            /\ NextOnRunner(i) # 0 => calls[NextOnRunner(i)].outcome # "busy"

\* a runOnElement() was rejected because its analysis threw, and the call
\* made on the same runner after it was accepted
C25_Witness ==
    \E i \in DOMAIN calls :
        /\ calls[i].op = "runOnElement" /\ calls[i].outcome = "rejected"
        /\ Throws(calls[i])
        /\ NextOnRunner(i) # 0
        /\ calls[NextOnRunner(i)].analyses = 1

\* every call made on the runner has settled
AllSettled(r) == \A i \in DOMAIN calls : calls[i].runner = r => calls[i].pc = "done"

\* the runner is idle once its calls have settled, and a call made on it
\* after all earlier ones had settled was accepted
IdleWhenSettled(r) ==
    /\ AllSettled(r) => ~isScanRunning[r]
    /\ \A i \in DOMAIN calls :
           (calls[i].runner = r /\ ~calls[i].sameInFlight) => calls[i].outcome # "busy"

\* C26 as stated: whatever the analysis and the callback do, the busy flag
\* of a runner is false once its accepted calls have settled, and the next
\* call on it is accepted.
C26_FlagAlwaysReset == \A r \in Runners : IdleWhenSettled(r)

\* C26, what the code does: the same for the runners whose callback does
\* not throw when called with true.
C26_FlagResetUnlessStartThrows ==
    \A r \in Runners : onChange[r] # "throwsOnTrue" => IdleWhenSettled(r)

\* a call was rejected because the callback threw when called with false,
\* and the call made on the runner after it was accepted
C26_Witness ==
    \E i \in DOMAIN calls :
        /\ onChange[calls[i].runner] = "throwsOnFalse"
        /\ calls[i].outcome = "rejected"
        /\ calls[i].fired = <<TRUE, FALSE>>
        /\ NextOnRunner(i) # 0
        /\ calls[NextOnRunner(i)].analyses = 1

\* the callback threw when called with true: the call was rejected, and
\* the call made on the runner after it got the empty result of a busy runner
C26_StuckWitness ==
    \E i \in DOMAIN calls :
        /\ onChange[calls[i].runner] = "throwsOnTrue"
        /\ calls[i].outcome = "rejected" /\ calls[i].fired = <<TRUE>>
        /\ NextOnRunner(i) # 0
        /\ calls[NextOnRunner(i)].outcome = "busy"
        /\ AllSettled(calls[i].runner)

\* C27: a call turned away because its runner is busy is settled at once
\* with the empty result, tells the callback nothing, runs no analysis and
\* leaves the flags, the clock and the records of all other calls as they
\* were.
C27_BusyCallChangesNothing ==
    [][ (Len(calls') = Len(calls) + 1 /\ calls'[Len(calls')].outcome = "busy") =>
            /\ isScanRunning[calls'[Len(calls')].runner]
            /\ isScanRunning' = isScanRunning
            /\ notes' = notes
            /\ clock' = clock
            /\ SubSeq(calls', 1, Len(calls)) = calls
            /\ calls'[Len(calls')].fired = <<>>
            /\ calls'[Len(calls')].analyses = 0
            /\ calls'[Len(calls')].pc = "done"
            /\ calls'[Len(calls')].result = AllZeroEmpty ]_vars

\* the scan in flight when a call was turned away completed with its full
\* result and its two notifications, and no more
C27_ScanInFlightUntouched ==
    \A i \in DOMAIN calls :
        (calls[i].outcome = "ok" /\ \E j \in DOMAIN calls :
              j > i /\ calls[j].runner = calls[i].runner /\ calls[j].outcome = "busy") =>
            /\ calls[i].result = FullResult(calls[i])
            /\ calls[i].fired = <<TRUE, FALSE>>
            /\ calls[i].timer # Never => calls[i].settled >= calls[i].timer

\* C27, both parts: the step of the busy call and the end of the scan in
\* flight.
C27_BusyCallIsInert == C27_BusyCallChangesNothing /\ []C27_ScanInFlightUntouched

\* a run() completed after a call on its runner had been turned away
C27_Witness ==
    \E i \in DOMAIN calls : \E j \in DOMAIN calls :
        /\ j > i /\ calls[j].runner = calls[i].runner
        /\ calls[j].outcome = "busy" /\ calls[j].sameInFlight
        /\ calls[i].op = "run" /\ calls[i].outcome = "ok"
        /\ calls[i].result # AllZeroEmpty

\* an accepted call that has no suspension point on its way: runOnElement(),
\* a run() whose analysis throws, a run() whose analysis took 500 ms or more
RunsToCompletion(c) ==
    /\ c.outcome # "busy"
    /\ \/ c.op = "runOnElement"
       \/ c.op = "run" /\ Throws(c)
       \/ c.op = "run" /\ c.took >= MIN_SCAN_DURATION

\* C28: such a call is over when it returns its promise, with no timer
\* set, and the call made on its runner right after it is accepted: it runs
\* its analysis and, unless that throws, gets the full result.
C28_FlagHeldToFirstSuspension ==
    \A i \in DOMAIN calls :
        RunsToCompletion(calls[i]) =>
            /\ calls[i].pc = "done"
            /\ calls[i].timer = Never
            /\ calls[i].settled = calls[i].start + calls[i].took
            /\ i = Len(calls) => ~isScanRunning[calls[i].runner]
            /\ NextOnRunner(i) # 0 =>
                  LET next == calls[NextOnRunner(i)]
                  IN /\ next.outcome # "busy"
                     /\ next.analyses = 1
                     /\ ~Throws(next) => next.result = FullResult(next)

\* a run() whose analysis took 500 ms was followed at once, with no time
\* passing, by a call on the same runner that got a result with patterns
C28_Witness ==
    \E i \in DOMAIN calls :
        /\ calls[i].op = "run" /\ calls[i].took >= MIN_SCAN_DURATION
        /\ calls[i].outcome = "ok"
        /\ NextOnRunner(i) # 0
        /\ calls[NextOnRunner(i)].start = calls[i].settled
        /\ calls[NextOnRunner(i)].result # AllZeroEmpty

\* C29, the shared flag: analyzeHTML() and analyzeURL() called while an
\* analyzeURL() of the same instance has not settled return the empty
\* result at once, and are accepted otherwise.
C29_HtmlAndUrlShareFlag ==
    \A i \in DOMAIN calls :
        calls[i].op \in {"analyzeHTML", "analyzeURL"} =>
            IF calls[i].scanInFlight
            THEN /\ calls[i].outcome = "busy" /\ calls[i].pc = "done"
                 /\ calls[i].result = AllZeroEmpty
                 /\ calls[i].fired = <<>>
            ELSE calls[i].outcome # "busy"

\* C29, analyzeFile(): it is never turned away and tells the callback
\* nothing; with the file read and an analysis that does not throw it gets
\* the full result, also when a scan was in flight as it was called.
C29_FileOutsideFlag ==
    \A i \in DOMAIN calls :
        calls[i].op = "analyzeFile" =>
            /\ calls[i].outcome # "busy"
            /\ calls[i].fired = <<>>
            /\ (calls[i].outcome = "ok") <=>
                   (calls[i].pc = "done" /\ calls[i].analyses = 1 /\ ~Throws(calls[i]))
            /\ calls[i].outcome = "ok" => calls[i].result = FullResult(calls[i])

\* C29, in every step: the flag of a runner moves only with a call of
\* analyzeHTML() or analyzeURL() and with the end of one, never with
\* analyzeFile(), and the callback is told nothing in a step of analyzeFile().
C29_FileLeavesFlag ==
    \A r \in Runners :
        (isScanRunning'[r] # isScanRunning[r] \/ notes'[r] # notes[r]) =>
            \E i \in DOMAIN calls' :
                /\ calls'[i].runner = r
                /\ calls'[i].op \in {"analyzeHTML", "analyzeURL"}
                /\ i \in DOMAIN calls => calls'[i] # calls[i]

\* C29: analyzeHTML() and analyzeURL() share one busy flag per instance,
\* and analyzeFile() neither reads nor sets it and fires no notification.
C29_NodeRunnerFlag ==
    /\ []C29_HtmlAndUrlShareFlag
    /\ []C29_FileOutsideFlag
    /\ [][C29_FileLeavesFlag]_vars

\* on one instance analyzeHTML() was turned away while analyzeURL() awaited
\* its fetch
C29_Witness ==
    \E i \in DOMAIN calls : \E j \in DOMAIN calls :
        /\ i < j /\ calls[i].runner = calls[j].runner
        /\ calls[i].op = "analyzeURL" /\ calls[i].pc = "fetch"
        /\ calls[j].op = "analyzeHTML" /\ calls[j].outcome = "busy"

\* analyzeFile() was called while analyzeURL() of the instance was in
\* flight and got a result with patterns
C29_FileWitness ==
    \E i \in DOMAIN calls :
        /\ calls[i].op = "analyzeFile" /\ calls[i].scanInFlight
        /\ calls[i].outcome = "ok" /\ calls[i].result # AllZeroEmpty

\* what one analyze(page) call made alone on the document returns without
\* a selector: the full analysis, or the empty result when it throws
AloneWithoutSelector ==
    IF analyzeThrows(Dom(doc), E2EConfig) THEN AllZeroEmpty
    ELSE analyze(Dom(doc), E2EConfig)

\* no element of the document has that id
MatchesNothing(selector) == \A n \in Nodes(doc) : Dom(doc)[n].id # selector

\* C30: no e2e call is turned away by the guard of a runner, whatever
\* other calls are in flight on the page: without a selector it returns
\* what a call made alone returns; a call whose selector matches no element
\* is rejected and returns no result.
C30_OwnRunnerPerCall ==
    \A i \in DOMAIN e2e :
        /\ ~e2e[i].busy
        /\ e2e[i].pc = "done" =>
              IF e2e[i].selector = <<>>
              THEN e2e[i].outcome = "ok" /\ e2e[i].result = AloneWithoutSelector
              ELSE MatchesNothing(e2e[i].selector) => e2e[i].outcome = "rejected"

\* two calls without a selector were scanning at the same time and both
\* returned the patterns of the document
C30_Witness ==
    /\ Len(e2e) >= 2
    /\ \A i \in {1, 2} :
           /\ e2e[i].pc = "done" /\ e2e[i].selector = <<>>
           /\ e2e[i].outcome = "ok" /\ e2e[i].result # AllZeroEmpty
    /\ e2e[2].overlaps

\* a call whose selector matches no element was rejected
C30_SelectorWitness ==
    \E i \in DOMAIN e2e :
        /\ e2e[i].selector # <<>> /\ MatchesNothing(e2e[i].selector)
        /\ e2e[i].pc = "done" /\ e2e[i].outcome = "rejected"

=============================================================================
